---- MODULE Spec2Model ----
(***************************************************************************)
(* A model of the snapshot comparison engine of mementor-ts                *)
(* (src/src/services/snapshotComparer.ts) and of the metadata header the   *)
(* snapshot generator writes (src/src/services/templateRenderer.ts).       *)
(*                                                                         *)
(* A string is the sequence of its characters, each a one-character TLA+   *)
(* string; a document is the sequence of its lines, which is what          *)
(* content.split('\n') returns (the split is a bijection between strings   *)
(* and non-empty sequences of newline-free strings).                       *)
(***************************************************************************)
EXTENDS Integers, Sequences, FiniteSets, TLC

VARIABLES
    pc,           \* position of the operation under way
    oldLines,     \* compareContent: first parameter
    newLines,     \* compareContent: second parameter
    content,      \* compareContent: the returned {added, removed, modified}
    oldMetrics,   \* compareMetrics: first parameter (old)
    newMetrics,   \* compareMetrics: second parameter (current)
    changes,      \* compareMetrics: the returned changes, in insertion order
    files,        \* compareSnapshots: the files at oldPath and newPath
    snapshots,    \* compareSnapshots: the promises of the two parseSnapshot calls
    result,       \* compareSnapshots: the promise the call returned
    metadata,     \* createSnapshot: the metadata of the snapshot to write
    report,       \* formatDiff: the lines of the returned report
    comparisons,  \* compareSnapshots: the calls under way at the same time
    doc,          \* SnapshotGenerator: the lines of the document at docPath
    now,          \* SnapshotGenerator: the clock, in ticks of twelve hours
    outputDir,    \* SnapshotGenerator: the snapshots directory
    snapshotsDir, \* handleCompareCommand: the directory docs/context/snapshots
    command,      \* handleCompareCommand: the arguments and the progress of the call
    manager,      \* AIContextManager: currentSession and the calls under way
    sessionStore, \* AIContextManager: the files of the context and sessions directories
    watcher       \* ProjectWatcher: the listeners and the handlers started

contentVars == <<oldLines, newLines, content>>
metricsVars == <<oldMetrics, newMetrics, changes>>
snapshotVars == <<files, snapshots, result>>
generatorVars == <<metadata>>
reportVars == <<report>>
concurrentVars == <<comparisons>>
\* the variables of the components specified after the comparison engine
documentVars == <<doc, now, outputDir>>
commandVars == <<snapshotsDir, command>>
sessionVars == <<manager, sessionStore>>
watcherVars == <<watcher>>
laterVars == <<concurrentVars, documentVars, commandVars, sessionVars, watcherVars>>
vars == <<pc, contentVars, metricsVars, snapshotVars, generatorVars, reportVars, laterVars>>

----------------------------------------------------------------------------
(* Bounds of the model *)

\* most body lines of the two snapshots together handed to compareContent
MaxLines == 5

\* largest value of the metrics that vary together
MaxMetric == 1

\* most lines of a short snapshot document
MaxDocLines == 3

\* most lines of a metadata section written by hand
MaxMetaLines == 2

\* most calls of compareSnapshots under way at the same time
MaxCalls == 2

\* most checked boxes of the document a snapshot is created from
MaxChecked == 2

\* latest tick of the clock at which a snapshot is created
MaxNow == 4

\* most files of the snapshots directory `mementor compare` looks through
MaxStored == 3

\* most calls of updateTaskProgress in a session
MaxUpdates == 4

\* most events the watcher emits
MaxEvents == 3

----------------------------------------------------------------------------
(* Generic helpers *)

Range(s) == {s[i] : i \in DOMAIN s}

Max(a, b) == IF a >= b THEN a ELSE b

\* number of positions of s holding x
Count(s, x) == Cardinality({i \in DOMAIN s : s[i] = x})

----------------------------------------------------------------------------
(* Characters and strings *)

UpperCase == <<"A", "B", "C", "D", "E", "F", "G", "H", "I", "J", "K", "L", "M",
               "N", "O", "P", "Q", "R", "S", "T", "U", "V", "W", "X", "Y", "Z">>
LowerCase == <<"a", "b", "c", "d", "e", "f", "g", "h", "i", "j", "k", "l", "m",
               "n", "o", "p", "q", "r", "s", "t", "u", "v", "w", "x", "y", "z">>

\* the characters the regular expression class \s and String.trim() treat
\* as white space, among those the model's strings use
IsSpace(c) == c \in {" ", "\t", "\r", "\n"}

toLowerCaseChar(c) ==
    IF \E i \in DOMAIN UpperCase : UpperCase[i] = c
    THEN LowerCase[CHOOSE i \in DOMAIN UpperCase : UpperCase[i] = c]
    ELSE c

\* String.prototype.toLowerCase
toLowerCase(s) == [i \in DOMAIN s |-> toLowerCaseChar(s[i])]

\* s.split(/\s+/): the pieces of s between maximal runs of white space. A
\* run at the very start or the very end leaves an empty first or last piece,
\* and the empty string splits into one empty piece.
RECURSIVE SplitFrom(_, _, _, _)
SplitFrom(s, i, cur, out) ==
    IF i > Len(s) THEN Append(out, cur)
    ELSE IF IsSpace(s[i])
         THEN IF i > 1 /\ IsSpace(s[i - 1])
              THEN SplitFrom(s, i + 1, cur, out)
              ELSE SplitFrom(s, i + 1, <<>>, Append(out, cur))
         ELSE SplitFrom(s, i + 1, Append(cur, s[i]), out)

splitWhitespace(s) == SplitFrom(s, 1, <<>>, <<>>)

\* line.trim() !== ''
NotBlank(line) == \E i \in DOMAIN line : ~IsSpace(line[i])

----------------------------------------------------------------------------
(* Content Differ *)

\* const threshold = 0.7, as the fraction thresholdNum / thresholdDen.
\* similarity >= threshold compares two doubles; c / m is correctly rounded
\* and so is the literal 0.7, hence the comparison agrees with the exact
\* 10 * c >= 7 * m for every m below 10^15.
thresholdNum == 7
thresholdDen == 10

\* new Set(line.toLowerCase().split(/\s+/))
WordSet(line) == Range(splitWhitespace(toLowerCase(line)))

\* [...words].filter(word => otherWords.has(word)).length
commonWords(words, otherWords) == Cardinality({w \in words : w \in otherWords})

\* a looser threshold of 60%
MeetsThresholdLoose(words, otherWords) ==
    commonWords(words, otherWords) * 10
        >= 6 * Max(Cardinality(words), Cardinality(otherWords))

\* the comparison written > instead of >=
MeetsThresholdStrict(words, otherWords) ==
    commonWords(words, otherWords) * thresholdDen
        > thresholdNum * Max(Cardinality(words), Cardinality(otherWords))

\* similarity >= threshold, with
\* similarity = commonWords.length / Math.max(words.size, otherWords.size)
MeetsThreshold(words, otherWords) ==
    commonWords(words, otherWords) * thresholdDen
        >= thresholdNum * Max(Cardinality(words), Cardinality(otherWords))

\* string | null: found = FALSE stands for null
Null == [found |-> FALSE, line |-> <<>>]

\* the loop of findSimilarLine over lines[i..]: the first otherLine, in
\* order, whose similarity reaches the threshold
RECURSIVE SimilarFrom(_, _, _)
SimilarFrom(words, lines, i) ==
    IF i > Len(lines) THEN Null
    ELSE IF MeetsThreshold(words, WordSet(lines[i]))
         THEN [found |-> TRUE, line |-> lines[i]]
         ELSE SimilarFrom(words, lines, i + 1)

\* the search returning the most similar of the lines that reach the
\* threshold, the earliest of them when several are as similar
findMostSimilarLine(line, lines) ==
    LET words == WordSet(line)
        reach == {i \in DOMAIN lines : MeetsThreshold(words, WordSet(lines[i]))}
        common(i) == commonWords(words, WordSet(lines[i]))
        larger(i) == Max(Cardinality(words), Cardinality(WordSet(lines[i])))
        closer(i, j) == common(i) * larger(j) > common(j) * larger(i)
        best == {i \in reach : \A j \in reach : ~closer(j, i)}
    IN  IF reach = {} THEN Null
        ELSE [found |-> TRUE, line |-> lines[CHOOSE i \in best : \A j \in best : i <= j]]

findSimilarLine(line, lines) == SimilarFrom(WordSet(line), lines, 1)

\* if (this.findSimilarLine(...)): null and the empty string are falsy
Truthy(r) == r.found /\ r.line # <<>>

\* the first loop with the else before added.push(line) left out: a line
\* paired with an old line is pushed to added as well
RECURSIVE AddedLoopNoElse(_, _, _, _, _)
AddedLoopNoElse(old, new, i, added, modified) ==
    IF i > Len(new) THEN [added |-> added, modified |-> modified]
    ELSE LET line == new[i]
             similar == findSimilarLine(line, old)
         IN  IF line \notin Range(old)
             THEN IF Truthy(similar)
                  THEN AddedLoopNoElse(old, new, i + 1, Append(added, line),
                            Append(modified, [old |-> similar.line, new |-> line]))
                  ELSE AddedLoopNoElse(old, new, i + 1, Append(added, line), modified)
             ELSE AddedLoopNoElse(old, new, i + 1, added, modified)

\* the first loop without the test whether oldSet has the line
RECURSIVE AddedLoopNoSetTest(_, _, _, _, _)
AddedLoopNoSetTest(old, new, i, added, modified) ==
    IF i > Len(new) THEN [added |-> added, modified |-> modified]
    ELSE LET line == new[i]
             similar == findSimilarLine(line, old)
         IN  IF Truthy(similar)
             THEN AddedLoopNoSetTest(old, new, i + 1, added,
                       Append(modified, [old |-> similar.line, new |-> line]))
             ELSE AddedLoopNoSetTest(old, new, i + 1, Append(added, line), modified)

\* the first loop of compareContent, over newLines[i..]. The code calls
\* findSimilarLine a second time with the same arguments to fill in the pair;
\* the function reads nothing but its arguments, so both calls return the same value.
RECURSIVE AddedLoop(_, _, _, _, _)
AddedLoop(old, new, i, added, modified) ==
    IF i > Len(new) THEN [added |-> added, modified |-> modified]
    ELSE LET line == new[i]
             similar == findSimilarLine(line, old)
         IN  IF line \notin Range(old)
             THEN IF Truthy(similar)
                  THEN AddedLoop(old, new, i + 1, added,
                            Append(modified, [old |-> similar.line, new |-> line]))
                  ELSE AddedLoop(old, new, i + 1, Append(added, line), modified)
             ELSE AddedLoop(old, new, i + 1, added, modified)

\* the second loop without the test on the modified pairs
RemovedLoopAll(old, new, modified) ==
    SelectSeq(old, LAMBDA line : line \notin Range(new))

\* the second loop of compareContent
RemovedLoop(old, new, modified) ==
    SelectSeq(old, LAMBDA line :
        /\ line \notin Range(new)
        /\ ~\E k \in DOMAIN modified : modified[k].old = line)

\* an early return of the empty diff when one of the bodies has no line
compareContentGuarded(old, new) ==
    LET first == AddedLoop(old, new, 1, <<>>, <<>>)
    IN  IF old = <<>> \/ new = <<>>
        THEN [added |-> <<>>, removed |-> <<>>, modified |-> <<>>]
        ELSE [added    |-> first.added,
              removed  |-> RemovedLoop(old, new, first.modified),
              modified |-> first.modified]

\* the two loops running from the last line to the first
compareContentBackwards(old, new) ==
    LET reversed(lines) == [i \in DOMAIN lines |-> lines[Len(lines) + 1 - i]]
        first == AddedLoop(old, reversed(new), 1, <<>>, <<>>)
    IN  [added    |-> first.added,
         removed  |-> RemovedLoop(reversed(old), new, first.modified),
         modified |-> first.modified]

compareContent(old, new) ==
    LET first == AddedLoop(old, new, 1, <<>>, <<>>)
    IN  [added    |-> first.added,
         removed  |-> RemovedLoop(old, new, first.modified),
         modified |-> first.modified]

----------------------------------------------------------------------------
(* Inputs of the content differ: body lines, none of them blank, since     *)
(* parseSnapshot filters blank lines out before compareContent sees them   *)

FixedLoginBug == <<"F", "i", "x", "e", "d", " ", "l", "o", "g", "i", "n", " ", "b", "u", "g">>
AddTests == <<"A", "d", "d", " ", "t", "e", "s", "t", "s">>
FixedLoginIssue == <<"F", "i", "x", "e", "d", " ", "l", "o", "g", "i", "n", " ", "i", "s", "s", "u", "e">>
UpdateDocs == <<"U", "p", "d", "a", "t", "e", " ", "d", "o", "c", "s">>

AddUnitTestsNow == <<"A", "d", "d", " ", "u", "n", "i", "t", " ", "t", "e", "s", "t", "s", " ", "n", "o", "w">>
AddUnitTestsLater == <<"A", "d", "d", " ", "u", "n", "i", "t", " ", "t", "e", "s", "t", "s", " ", "l", "a", "t", "e", "r">>
addUnitTestsNowLower == <<"a", "d", "d", " ", "u", "n", "i", "t", " ", "t", "e", "s", "t", "s", " ", "n", "o", "w">>

TenWords == <<"a", " ", "b", " ", "c", " ", "d", " ", "e", " ", "f", " ", "g", " ", "h", " ", "i", " ", "j">>
TenWordsSevenShared == <<"a", " ", "b", " ", "c", " ", "d", " ", "e", " ", "f", " ", "g", " ", "x", " ", "y", " ", "z">>
NineWordsSixShared == <<"a", " ", "b", " ", "c", " ", "d", " ", "e", " ", "f", " ", "x", " ", "y", " ", "z">>
IndentedAbc == <<" ", "a", " ", "b", " ", "c">>
IndentedAbd == <<" ", "a", " ", "b", " ", "d">>
PlainAbc == <<"a", " ", "b", " ", "c">>
TabbedAbc == <<"a", "\t", "b", " ", " ", "c">>
TrailingABC == <<"A", " ", "B", " ", "C", " ">>
IndentedA == <<" ", "a">>
PlainA == <<"a">>

\* the lines the old and new bodies of up to MaxLines lines together are
\* built from
Lines == {AddUnitTestsNow, AddUnitTestsLater, addUnitTestsNowLower, UpdateDocs}

\* lines compared one against one, around the similarity threshold
BoundaryLines ==
    Lines \cup {TenWords, TenWordsSevenShared, NineWordsSixShared,
                IndentedAbc, IndentedAbd, PlainAbc, TabbedAbc, TrailingABC,
                IndentedA, PlainA, FixedLoginBug, FixedLoginIssue}

ScenarioOld == <<FixedLoginBug, AddTests>>
ScenarioNew == <<FixedLoginIssue, AddTests, UpdateDocs>>

ContentInputs ==
    UNION {[1..n -> Lines] \X [1..m -> Lines] :
              <<n, m>> \in {nm \in (0..MaxLines) \X (0..MaxLines) :
                               nm[1] + nm[2] <= MaxLines}}
    \cup {<<ScenarioOld, ScenarioNew>>}
    \cup {<< <<a>>, <<b>> >> : a \in BoundaryLines, b \in BoundaryLines}

NoContent == [added |-> <<>>, removed |-> <<>>, modified |-> <<>>]

----------------------------------------------------------------------------
(* JavaScript values of the metrics records: typeof and the value. The    *)
(* val of a number counts tenths, so that a percentage such as 12.5 is a  *)
(* value of the model: Num(n) is the whole number n, Tenths(t) is t / 10. *)
(* The decimals of the model are halves, which a double holds exactly, so *)
(* that the differences the code computes are exact as well.               *)

Num(n)  == [type |-> "number",  val |-> 10 * n]
Tenths(t) == [type |-> "number", val |-> t]
Str(s)  == [type |-> "string",  val |-> s]
Bool(b) == [type |-> "boolean", val |-> b]
Arr(a)  == [type |-> "object",  val |-> a]

DigitChars == <<"0", "1", "2", "3", "4", "5", "6", "7", "8", "9">>

\* the decimal digits of a natural number
RECURSIVE Digits(_)
Digits(n) ==
    IF n < 10 THEN <<DigitChars[n + 1]>>
    ELSE Digits(n \div 10) \o <<DigitChars[(n % 10) + 1]>>

\* String(x) of the number of t tenths: the sign, the whole part and the
\* decimal when there is one
NumberToString(t) ==
    LET a == IF t < 0 THEN -t ELSE t IN
    (IF t < 0 THEN <<"-">> ELSE <<>>)
        \o Digits(a \div 10)
        \o (IF a % 10 = 0 THEN <<>> ELSE <<".", DigitChars[(a % 10) + 1]>>)

\* JSON's quoting of a string: the quote and the backslash are escaped
RECURSIVE Escape(_)
Escape(s) ==
    IF s = <<>> THEN <<>>
    ELSE (IF Head(s) \in {"\"", "\\"} THEN <<"\\", Head(s)>> ELSE <<Head(s)>>)
             \o Escape(Tail(s))

Quote(s) == <<"\"">> \o Escape(s) \o <<"\"">>

\* the elements of an array, quoted and joined by commas
RECURSIVE Elements(_)
Elements(a) ==
    IF a = <<>> THEN <<>>
    ELSE IF Len(a) = 1 THEN Quote(a[1])
    ELSE Quote(Head(a)) \o <<",">> \o Elements(Tail(a))

\* JSON.stringify of a number, a string, a boolean or an array of strings
JSONstringify(v) ==
    CASE v.type = "number"  -> NumberToString(v.val)
      [] v.type = "string"  -> Quote(v.val)
      [] v.type = "boolean" -> IF v.val THEN <<"t", "r", "u", "e">>
                                        ELSE <<"f", "a", "l", "s", "e">>
      [] v.type = "object"  -> <<"[">> \o Elements(v.val) \o <<"]">>

----------------------------------------------------------------------------
(* Metric Differ *)

\* Object.keys of a HealthMetrics record, in the order parseSnapshot and
\* calculateHealthMetrics write the fields
Keys == <<"last_updated", "word_count", "reading_time", "has_todos", "todo_count",
          "linked_files", "broken_links", "completion_percentage", "section_count",
          "section_depth", "code_blocks", "avg_section_length", "readability_score",
          "last_snapshot_delta">>

\* oldValue !== newValue: primitives by value, two arrays never identical
StrictNotEqual(oldValue, newValue) ==
    IF oldValue.type = "object" THEN TRUE ELSE oldValue # newValue

\* a test that lets every pair of numbers through
DiffersOrNumbers(oldValue, newValue) ==
    \/ oldValue.type = "number" /\ newValue.type = "number"
    \/ JSONstringify(oldValue) # JSONstringify(newValue)

\* JSON.stringify(oldValue) !== JSON.stringify(newValue)
Differs(oldValue, newValue) == JSONstringify(oldValue) # JSONstringify(newValue)

\* the delta taken as old - new
EntryReversed(key, oldValue, newValue) ==
    IF oldValue.type = "number" /\ newValue.type = "number"
    THEN [key |-> key, old |-> oldValue, new |-> newValue,
          delta |-> oldValue.val - newValue.val]
    ELSE [key |-> key, old |-> oldValue, new |-> newValue]

\* changes[key] = {old, new}, with delta = newValue - oldValue when both
\* values are numbers
Entry(key, oldValue, newValue) ==
    IF oldValue.type = "number" /\ newValue.type = "number"
    THEN [key |-> key, old |-> oldValue, new |-> newValue,
          delta |-> newValue.val - oldValue.val]
    ELSE [key |-> key, old |-> oldValue, new |-> newValue]

\* the loop without its test: an entry for every key
RECURSIVE MetricsLoopAll(_, _, _, _)
MetricsLoopAll(o, c, i, acc) ==
    IF i > Len(Keys) THEN acc
    ELSE MetricsLoopAll(o, c, i + 1, Append(acc, Entry(Keys[i], o[Keys[i]], c[Keys[i]])))

\* the loop of compareMetrics over Object.keys(old)[i..]
RECURSIVE MetricsLoop(_, _, _, _)
MetricsLoop(o, c, i, acc) ==
    IF i > Len(Keys) THEN acc
    ELSE LET key == Keys[i] IN
         IF Differs(o[key], c[key])
         THEN MetricsLoop(o, c, i + 1, Append(acc, Entry(key, o[key], c[key])))
         ELSE MetricsLoop(o, c, i + 1, acc)

\* the changes map, as the sequence of its entries in insertion order (each
\* key is assigned at most once)
compareMetrics(o, c) == MetricsLoop(o, c, 1, <<>>)

----------------------------------------------------------------------------
(* Inputs of the metric differ *)

Timestamp1 == <<"2", "0", "2", "4", "-", "0", "1", "-", "0", "1">>
Timestamp2 == <<"2", "0", "2", "4", "-", "0", "1", "-", "0", "2">>
ReadmeMd == <<"R", "E", "A", "D", "M", "E", ".", "m", "d">>
ApiMd == <<"a", "p", "i", ".", "m", "d">>

HealthMetrics(updated, words, minutes, todos, linked, broken, completion, sections, depth, blocks, avg, readability, delta) ==
    [last_updated          |-> Str(updated),
     word_count            |-> Num(words),
     reading_time          |-> Num(minutes),
     has_todos             |-> Bool(todos > 0),
     todo_count            |-> Num(todos),
     linked_files          |-> Arr(linked),
     broken_links          |-> Arr(broken),
     completion_percentage |-> Num(completion),
     section_count         |-> Num(sections),
     section_depth         |-> Num(depth),
     code_blocks           |-> Num(blocks),
     avg_section_length    |-> Num(avg),
     readability_score     |-> Num(readability),
     last_snapshot_delta   |-> Num(delta)]

NumericKeys == {"word_count", "reading_time", "todo_count", "completion_percentage",
                "section_count", "section_depth", "code_blocks",
                "avg_section_length", "readability_score", "last_snapshot_delta"}

BaseMetrics == HealthMetrics(Timestamp1, 0, 0, 0, <<>>, <<>>, 100, 0, 0, 0, 0, 0, 0)

\* Records whose time stamp, word count, todo count, age and link lists vary
\* together, and records with one numeric field away from the base record.
\* parseSnapshot and calculateHealthMetrics always leave the two lists empty;
\* the lists with elements are the other values their type string[] has.
MetricsInputs ==
    {HealthMetrics(u, w, 0, t, l, <<>>, 100, 0, 0, 0, 0, 0, d) :
        u \in {Timestamp1, Timestamp2}, w \in 0..MaxMetric, t \in 0..MaxMetric,
        d \in 0..MaxMetric,
        l \in {<<>>, <<ReadmeMd>>, <<ApiMd>>, <<ReadmeMd, ApiMd>>}}
    \cup {[BaseMetrics EXCEPT ![k] = Num(n)] : k \in NumericKeys, n \in {-1, 7, 42}}
    \cup {[BaseMetrics EXCEPT !["broken_links"] = Arr(<<ApiMd>>)]}
    \cup {[BaseMetrics EXCEPT !["completion_percentage"] = Tenths(125)]}

----------------------------------------------------------------------------
(* String operations of the snapshot parser *)

\* sub occurs in s at position i
OccursAt(s, i, sub) ==
    /\ i + Len(sub) - 1 <= Len(s)
    /\ \A j \in 1..Len(sub) : s[i + j - 1] = sub[j]

\* s.includes(sub) and s.startsWith(sub)
includes(s, sub) == \E i \in 1..(Len(s) + 1) : OccursAt(s, i, sub)
startsWith(s, sub) == OccursAt(s, 1, sub)

\* s.indexOf(sub), counted from 1; 0 when sub does not occur
indexOf(s, sub) ==
    IF includes(s, sub)
    THEN CHOOSE i \in 1..(Len(s) + 1) :
            OccursAt(s, i, sub) /\ \A j \in 1..(i - 1) : ~OccursAt(s, j, sub)
    ELSE 0

\* s.split(sep) for a non-empty string sep
RECURSIVE split(_, _)
split(s, sep) ==
    LET i == indexOf(s, sep) IN
    IF i = 0 THEN <<s>>
    ELSE <<SubSeq(s, 1, i - 1)>> \o split(SubSeq(s, i + Len(sep), Len(s)), sep)

\* s.trim()
RECURSIVE trimStart(_)
trimStart(s) == IF s # <<>> /\ IsSpace(Head(s)) THEN trimStart(Tail(s)) ELSE s

RECURSIVE trimEnd(_)
trimEnd(s) ==
    IF s # <<>> /\ IsSpace(s[Len(s)]) THEN trimEnd(SubSeq(s, 1, Len(s) - 1)) ELSE s

trim(s) == trimEnd(trimStart(s))

\* s.replace(sub, ''): the first occurrence of sub removed
removeFirst(s, sub) ==
    LET i == indexOf(s, sub) IN
    IF i = 0 THEN s ELSE SubSeq(s, 1, i - 1) \o SubSeq(s, i + Len(sub), Len(s))

IsDigit(c) == \E d \in DOMAIN DigitChars : DigitChars[d] = c
DigitValue(c) == (CHOOSE d \in DOMAIN DigitChars : DigitChars[d] = c) - 1

\* a number, of val tenths, or NaN
NaN == [nan |-> TRUE, val |-> 0]
Number(t) == [nan |-> FALSE, val |-> t]

\* the value of the longest run of decimal digits s[i..] starts with
RECURSIVE DigitRun(_, _, _)
DigitRun(s, i, acc) ==
    IF i <= Len(s) /\ IsDigit(s[i])
    THEN DigitRun(s, i + 1, 10 * acc + DigitValue(s[i]))
    ELSE acc

\* the longest prefix of decimal digits with an optional sign, NaN when
\* there is no digit; leading white space is skipped
SignedDigits(str) ==
    LET s == trimStart(str)
        signed == s # <<>> /\ Head(s) \in {"+", "-"}
        digits == IF signed THEN Tail(s) ELSE s
    IN  IF digits = <<>> \/ ~IsDigit(Head(digits)) THEN NaN
        ELSE IF signed /\ Head(s) = "-"
             THEN Number(0 - 10 * DigitRun(digits, 1, 0))
             ELSE Number(10 * DigitRun(digits, 1, 0))

\* parseInt(str, 10)
parseInt(str) == SignedDigits(str)

\* the number of decimal digits s starts with
RECURSIVE DigitsLen(_)
DigitsLen(s) == IF s # <<>> /\ IsDigit(Head(s)) THEN 1 + DigitsLen(Tail(s)) ELSE 0

\* parseFloat reading what parseInt reads
parseFloatWhole(str) == SignedDigits(str)

\* parseFloat(str): the longest prefix that is a decimal literal, an
\* optional sign, digits and an optional point with digits, of which one
\* side may be missing; NaN when there is no such prefix. The strings of
\* the model have at most one digit after the point and no exponent.
parseFloat(str) ==
    LET s == trimStart(str)
        signed == s # <<>> /\ Head(s) \in {"+", "-"}
        body == IF signed THEN Tail(s) ELSE s
        n == DigitsLen(body)
        rest == SubSeq(body, n + 1, Len(body))
        decimal == Len(rest) >= 2 /\ rest[1] = "." /\ IsDigit(rest[2])
        tenths == 10 * DigitRun(body, 1, 0) + (IF decimal THEN DigitValue(rest[2]) ELSE 0)
    IN  IF n = 0 /\ ~decimal THEN NaN
        ELSE IF signed /\ Head(s) = "-" THEN Number(0 - tenths) ELSE Number(tenths)

\* x || 0 for a number x: NaN and 0 are falsy
OrZero(x) == IF x.nan \/ x.val = 0 THEN 0 ELSE x.val

----------------------------------------------------------------------------
(* Snapshot Parser and Metric Extractor *)

Separator == <<"-", "-", "-">>

KeyWordCount == <<"W", "o", "r", "d", " ", "C", "o", "u", "n", "t">>
KeyReadingTime == <<"R", "e", "a", "d", "i", "n", "g", " ", "T", "i", "m", "e">>
KeyTODOs == <<"T", "O", "D", "O", "s">>
KeyCompletion == <<"C", "o", "m", "p", "l", "e", "t", "i", "o", "n">>
KeySections == <<"S", "e", "c", "t", "i", "o", "n", "s">>
KeyCodeBlocks == <<"C", "o", "d", "e", " ", "B", "l", "o", "c", "k", "s">>
KeyDaysSince == <<"D", "a", "y", "s", " ", "S", "i", "n", "c", "e", " ", "L", "a", "s", "t", " ", "S", "n", "a", "p", "s", "h", "o", "t">>
VersionPrefix == <<"V", "e", "r", "s", "i", "o", "n", ":">>
CreatedPrefix == <<"C", "r", "e", "a", "t", "e", "d", ":">>
UpdatedPrefix == <<"U", "p", "d", "a", "t", "e", "d", ":">>

\* the least index of a set of indices, 0 (for -1 or undefined) when empty:
\* what findIndex and find settle on
FirstIndex(S) == IF S = {} THEN 0 ELSE CHOOSE i \in S : \A j \in S : i <= j

\* the greatest index of a set of indices, as findLastIndex would give
LastIndex(S) == IF S = {} THEN 0 ELSE CHOOSE i \in S : \A j \in S : i >= j

\* the separator searched from the end
metadataEndIndexLast(lines) == LastIndex({i \in DOMAIN lines : lines[i] = Separator})

\* lines.findIndex(line => line === '---'), counted from 1
metadataEndIndex(lines) == FirstIndex({i \in DOMAIN lines : lines[i] = Separator})

\* metadataLines.find(line => line.startsWith(prefix))?.split(': ')[1] || ''
headerField(metadataLines, prefix) ==
    LET i == FirstIndex({k \in DOMAIN metadataLines : startsWith(metadataLines[k], prefix)}) IN
    IF i = 0 THEN <<>>
    ELSE LET parts == split(metadataLines[i], <<":", " ">>) IN
         IF Len(parts) >= 2 THEN parts[2] ELSE <<>>

\* what a call that throws gives instead of a value
TypeError == "TypeError: Cannot read properties of undefined (reading 'trim')"
Thrown(err) == [threw |-> err]
Threw(x) == "threw" \in DOMAIN x

\* the found line split on ': ', as the header fields are split
extractMetricColonSpace(lines, key, isPercentage) ==
    LET i == FirstIndex({k \in DOMAIN lines :
                            includes(lines[k], <<"-", " ">> \o key \o <<":">>)}) IN
    IF i = 0 THEN Number(0)
    ELSE LET parts == split(lines[i], <<":", " ">>) IN
         IF Len(parts) < 2 THEN Thrown(TypeError)
         ELSE LET value == trim(parts[2]) IN
              IF isPercentage
              THEN parseFloat(removeFirst(value, <<"%">>))
              ELSE parseInt(split(value, <<" ">>)[1])

\* extractMetric(lines, key, isPercentage): line.split(':')[1] is undefined
\* when the split has one part, and undefined.trim() throws
extractMetric(lines, key, isPercentage) ==
    LET i == FirstIndex({k \in DOMAIN lines :
                            includes(lines[k], <<"-", " ">> \o key \o <<":">>)}) IN
    IF i = 0 THEN Number(0)
    ELSE LET parts == split(lines[i], <<":">>) IN
         IF Len(parts) < 2 THEN Thrown(TypeError)
         ELSE LET value == trim(parts[2]) IN
              IF isPercentage
              THEN parseFloat(removeFirst(value, <<"%">>))
              ELSE parseInt(split(value, <<" ">>)[1])

\* the extractMetric calls of the healthMetrics literal, in the order they
\* are evaluated
MetricCalls(metadataLines) ==
    <<extractMetric(metadataLines, KeyWordCount, FALSE),
      extractMetric(metadataLines, KeyReadingTime, FALSE),
      extractMetric(metadataLines, KeyTODOs, FALSE),
      extractMetric(metadataLines, KeyTODOs, FALSE),
      extractMetric(metadataLines, KeyCompletion, TRUE),
      extractMetric(metadataLines, KeySections, FALSE),
      extractMetric(metadataLines, KeyCodeBlocks, FALSE),
      extractMetric(metadataLines, KeyDaysSince, FALSE)>>

\* one of the calls throws, and the literal is never built
ExtractionThrows(metadataLines) ==
    LET calls == MetricCalls(metadataLines) IN
    \E k \in DOMAIN calls : Threw(calls[k])

\* the comparison written >= 0
hasTodosAtLeastZero(todos) == Bool(~todos.nan /\ todos.val >= 0)

\* this.extractMetric(metadataLines, 'TODOs') > 0: NaN > 0 is false
hasTodos(todos) == Bool(~todos.nan /\ todos.val > 0)

\* the literal with section_depth read from the Sections entry
parseHealthMetricsDepth(metadataLines, updated) ==
    [last_updated          |-> Str(updated),
     word_count            |-> Tenths(OrZero(extractMetric(metadataLines, KeyWordCount, FALSE))),
     reading_time          |-> Tenths(OrZero(extractMetric(metadataLines, KeyReadingTime, FALSE))),
     has_todos             |-> hasTodos(extractMetric(metadataLines, KeyTODOs, FALSE)),
     todo_count            |-> Tenths(OrZero(extractMetric(metadataLines, KeyTODOs, FALSE))),
     linked_files          |-> Arr(<<>>),
     broken_links          |-> Arr(<<>>),
     completion_percentage |-> Tenths(OrZero(extractMetric(metadataLines, KeyCompletion, TRUE))),
     section_count         |-> Tenths(OrZero(extractMetric(metadataLines, KeySections, FALSE))),
     section_depth         |-> Tenths(OrZero(extractMetric(metadataLines, KeySections, FALSE))),
     code_blocks           |-> Tenths(OrZero(extractMetric(metadataLines, KeyCodeBlocks, FALSE))),
     avg_section_length    |-> Num(0),
     readability_score     |-> Num(0),
     last_snapshot_delta   |-> Tenths(OrZero(extractMetric(metadataLines, KeyDaysSince, FALSE)))]

\* the healthMetrics literal of parseSnapshot
parseHealthMetrics(metadataLines, updated) ==
    [last_updated          |-> Str(updated),
     word_count            |-> Tenths(OrZero(extractMetric(metadataLines, KeyWordCount, FALSE))),
     reading_time          |-> Tenths(OrZero(extractMetric(metadataLines, KeyReadingTime, FALSE))),
     has_todos             |-> hasTodos(extractMetric(metadataLines, KeyTODOs, FALSE)),
     todo_count            |-> Tenths(OrZero(extractMetric(metadataLines, KeyTODOs, FALSE))),
     linked_files          |-> Arr(<<>>),
     broken_links          |-> Arr(<<>>),
     completion_percentage |-> Tenths(OrZero(extractMetric(metadataLines, KeyCompletion, TRUE))),
     section_count         |-> Tenths(OrZero(extractMetric(metadataLines, KeySections, FALSE))),
     section_depth         |-> Num(0),
     code_blocks           |-> Tenths(OrZero(extractMetric(metadataLines, KeyCodeBlocks, FALSE))),
     avg_section_length    |-> Num(0),
     readability_score     |-> Num(0),
     last_snapshot_delta   |-> Tenths(OrZero(extractMetric(metadataLines, KeyDaysSince, FALSE)))]

\* a file: the lines of its text, or a file that cannot be read
File(lines) == [readable |-> TRUE, lines |-> lines]
Unreadable == [readable |-> FALSE, lines |-> <<>>]

IOError == "ENOENT"
FormatError == "Invalid snapshot format: no metadata section found"

\* the promise of a call: pending, fulfilled with a value or rejected with
\* an error
Pending == [state |-> "pending"]
Fulfilled(v) == [state |-> "fulfilled", value |-> v]
Rejected(err) == [state |-> "rejected", error |-> err]

\* what parseSnapshot returns for the lines it has split, with the local
\* metadataLines kept beside it
ParsedAt(lines, index) ==
    LET metadataLines == SubSeq(lines, 1, index - 1)
        contentLines == SubSeq(lines, index + 1, Len(lines))
        updated == headerField(metadataLines, UpdatedPrefix)
    IN  [metadataLines |-> metadataLines,
         metadata |-> [version        |-> headerField(metadataLines, VersionPrefix),
                       created_at     |-> headerField(metadataLines, CreatedPrefix),
                       updated_at     |-> updated,
                       health_metrics |-> parseHealthMetrics(metadataLines, updated)],
         content |-> SelectSeq(contentLines, NotBlank)]

\* parseSnapshot with no test of metadataEndIndex: for -1 the slices are
\* lines.slice(0, -1) and lines.slice(0)
parseSnapshotNoThrow(file) ==
    IF ~file.readable THEN Rejected(IOError)
    ELSE IF metadataEndIndex(file.lines) = 0
         THEN Fulfilled([ParsedAt(file.lines, Len(file.lines)) EXCEPT
                            !.content = SelectSeq(file.lines, NotBlank)])
    ELSE IF ExtractionThrows(SubSeq(file.lines, 1, metadataEndIndex(file.lines) - 1))
         THEN Rejected(TypeError)
         ELSE Fulfilled(ParsedAt(file.lines, metadataEndIndex(file.lines)))

\* parseSnapshot(filePath), from the moment fs.readFile settles: the read
\* fails, or the text is split into lines and parsed; an exception of
\* extractMetric would reject the promise of the async method
parseSnapshot(file) ==
    IF ~file.readable THEN Rejected(IOError)
    ELSE IF metadataEndIndex(file.lines) = 0 THEN Rejected(FormatError)
    ELSE IF ExtractionThrows(SubSeq(file.lines, 1, metadataEndIndex(file.lines) - 1))
         THEN Rejected(TypeError)
         ELSE Fulfilled(ParsedAt(file.lines, metadataEndIndex(file.lines)))

\* the oldPath and the newPath compareSnapshots is called with
OldPath == <<"s", "n", "a", "p", "s", "h", "o", "t", "s", "/", "2", "0", "2", "4", "/", "0", "1", "/", "0", "1", "/", "s", "n", "a", "p", "s", "h", "o", "t", "_", "1", "0", "0", "0", "0", "0", ".", "m", "d">>
NewPath == <<"s", "n", "a", "p", "s", "h", "o", "t", "s", "/", "2", "0", "2", "4", "/", "0", "1", "/", "0", "2", "/", "s", "n", "a", "p", "s", "h", "o", "t", "_", "1", "1", "3", "0", "0", "0", ".", "m", "d">>

\* the SnapshotDiff compareSnapshots returns
SnapshotDiff(oldSnapshot, newSnapshot) ==
    [oldPath |-> OldPath,
     newPath |-> NewPath,
     metrics |-> [old     |-> oldSnapshot.metadata.health_metrics,
                  new     |-> newSnapshot.metadata.health_metrics,
                  changes |-> compareMetrics(oldSnapshot.metadata.health_metrics,
                                             newSnapshot.metadata.health_metrics)],
     content |-> compareContent(oldSnapshot.content, newSnapshot.content)]

\* a Promise.all whose result array is in the order the promises settled
awaitAllInSettleOrder(outcome, settled, promises) ==
    IF outcome.state # "pending" THEN outcome
    ELSE IF promises[settled].state = "rejected"
         THEN Rejected(promises[settled].error)
    ELSE IF promises.old.state = "fulfilled" /\ promises.new.state = "fulfilled"
         THEN IF settled = "new"
              THEN Fulfilled(SnapshotDiff(promises.old.value, promises.new.value))
              ELSE Fulfilled(SnapshotDiff(promises.new.value, promises.old.value))
    ELSE outcome

\* Promise.all([...]) followed by the rest of compareSnapshots, given the
\* promise so far and the two parseSnapshot promises after one has settled:
\* the first rejection rejects the call, the second fulfilment lets it
\* return, and a call that has settled stays as it is
awaitAll(outcome, settled, promises) ==
    IF outcome.state # "pending" THEN outcome
    ELSE IF promises[settled].state = "rejected"
         THEN Rejected(promises[settled].error)
    ELSE IF promises.old.state = "fulfilled" /\ promises.new.state = "fulfilled"
         THEN Fulfilled(SnapshotDiff(promises.old.value, promises.new.value))
    ELSE outcome

----------------------------------------------------------------------------
(* Inputs of compareSnapshots: the two snapshot files *)

EmptyLine == <<>>
SpacesLine == <<" ", " ">>
SeparatorTrailingSpace == <<"-", "-", "-", " ">>
TodosTwo == <<"-", " ", "T", "O", "D", "O", "s", ":", " ", "2">>

HeaderTitle == <<"=", "=", "=", " ", "M", "E", "M", "E", "N", "T", "O", "R", " ", "S", "N", "A", "P", "S", "H", "O", "T", " ", "=", "=", "=">>
VersionLine == <<"V", "e", "r", "s", "i", "o", "n", ":", " ", "1", ".", "0", ".", "0">>
CreatedLine == <<"C", "r", "e", "a", "t", "e", "d", ":", " ", "2", "0", "2", "4", "-", "0", "1", "-", "0", "1">>
UpdatedLine1 == <<"U", "p", "d", "a", "t", "e", "d", ":", " ", "2", "0", "2", "4", "-", "0", "1", "-", "0", "1">>
UpdatedLine2 == <<"U", "p", "d", "a", "t", "e", "d", ":", " ", "2", "0", "2", "4", "-", "0", "1", "-", "0", "2">>
DependenciesTitle == <<"D", "e", "p", "e", "n", "d", "e", "n", "c", "i", "e", "s", ":">>
HealthTitle == <<"H", "e", "a", "l", "t", "h", " ", "M", "e", "t", "r", "i", "c", "s", ":">>
WordCount120 == <<"-", " ", "W", "o", "r", "d", " ", "C", "o", "u", "n", "t", ":", " ", "1", "2", "0">>
WordCount300 == <<"-", " ", "W", "o", "r", "d", " ", "C", "o", "u", "n", "t", ":", " ", "3", "0", "0">>
ReadingTime1 == <<"-", " ", "R", "e", "a", "d", "i", "n", "g", " ", "T", "i", "m", "e", ":", " ", "1", " ", "m", "i", "n", "u", "t", "e", "s">>
ReadingTime2 == <<"-", " ", "R", "e", "a", "d", "i", "n", "g", " ", "T", "i", "m", "e", ":", " ", "2", " ", "m", "i", "n", "u", "t", "e", "s">>
TodosZero == <<"-", " ", "T", "O", "D", "O", "s", ":", " ", "0">>
Completion100 == <<"-", " ", "C", "o", "m", "p", "l", "e", "t", "i", "o", "n", ":", " ", "1", "0", "0", "%">>
Completion50 == <<"-", " ", "C", "o", "m", "p", "l", "e", "t", "i", "o", "n", ":", " ", "5", "0", "%">>
SectionsThree == <<"-", " ", "S", "e", "c", "t", "i", "o", "n", "s", ":", " ", "3">>
CodeBlocksOne == <<"-", " ", "C", "o", "d", "e", " ", "B", "l", "o", "c", "k", "s", ":", " ", "1">>
DaysSinceZero == <<"-", " ", "D", "a", "y", "s", " ", "S", "i", "n", "c", "e", " ", "L", "a", "s", "t", " ", "S", "n", "a", "p", "s", "h", "o", "t", ":", " ", "0">>
DaysSinceTwo == <<"-", " ", "D", "a", "y", "s", " ", "S", "i", "n", "c", "e", " ", "L", "a", "s", "t", " ", "S", "n", "a", "p", "s", "h", "o", "t", ":", " ", "2">>

\* two snapshots laid out as TemplateRenderer.createSnapshot writes them,
\* the second with a markdown rule '---' in its body
SnapshotA ==
    <<HeaderTitle, VersionLine, CreatedLine, UpdatedLine1, EmptyLine, DependenciesTitle,
      EmptyLine, HealthTitle, WordCount120, ReadingTime1, TodosZero, Completion100,
      SectionsThree, CodeBlocksOne, DaysSinceZero, EmptyLine, Separator, EmptyLine,
      FixedLoginBug, EmptyLine, AddTests>>
SnapshotB ==
    <<HeaderTitle, VersionLine, CreatedLine, UpdatedLine2, EmptyLine, DependenciesTitle,
      EmptyLine, HealthTitle, WordCount300, ReadingTime2, TodosTwo, Completion50,
      SectionsThree, CodeBlocksOne, DaysSinceTwo, EmptyLine, Separator, EmptyLine,
      FixedLoginIssue, SpacesLine, AddTests, Separator, UpdateDocs>>
\* the header of SnapshotA with no separator after it
SnapshotNoSeparator ==
    <<HeaderTitle, VersionLine, CreatedLine, UpdatedLine1, EmptyLine, FixedLoginBug>>

\* the lines the short documents are built from
DocLines == {Separator, SeparatorTrailingSpace, EmptyLine, SpacesLine, AddTests, TodosTwo}

\* a text has at least one line
ShortDocs == UNION {[1..n -> DocLines] : n \in 1..MaxDocLines}

PickedFiles == {Unreadable, File(SnapshotA), File(SnapshotB), File(SnapshotNoSeparator)}
Files == PickedFiles \cup {File(lines) : lines \in ShortDocs}

\* one of the two files is a picked one, the other any file
FilePairs == (PickedFiles \X Files) \cup (Files \X PickedFiles)

----------------------------------------------------------------------------
(* Inputs of the metric extractor: metadata sections written by hand *)

TodosMany == <<"-", " ", "T", "O", "D", "O", "s", ":", " ", "m", "a", "n", "y">>
TodosNoValue == <<"-", " ", "T", "O", "D", "O", "s", ":">>
TodosNegative == <<"-", " ", "T", "O", "D", "O", "s", ":", " ", "-", "3">>
CompletionHalf == <<"-", " ", "C", "o", "m", "p", "l", "e", "t", "i", "o", "n", ":", " ", "1", "2", ".", "5", "%">>
CompletionNone == <<"-", " ", "C", "o", "m", "p", "l", "e", "t", "i", "o", "n", ":", " ", "n", "/", "a">>

\* entries of the form '- <Label>: <value>' as the generator writes them,
\* entries with a value edited by hand or with none, and a header line
MetaLines ==
    {TodosZero, TodosTwo, TodosMany, TodosNoValue, TodosNegative,
     Completion100, CompletionHalf, CompletionNone, WordCount120, UpdatedLine1}

MetadataSections == UNION {[1..n -> MetaLines] : n \in 0..MaxMetaLines}

\* a metadata section, the separator and a body of one line
EditedFiles == {File(lines \o <<Separator, FixedLoginBug>>) : lines \in MetadataSections}

\* an edited snapshot compared with a generated one, on either side
EditedPairs ==
    ({File(SnapshotA)} \X EditedFiles) \cup (EditedFiles \X {File(SnapshotA)})

----------------------------------------------------------------------------
(* The metadata header of the snapshot generator *)

\* the DocumentationMetadata of a snapshot
Metadata(version, created, updated, dependencies, metrics, tags) ==
    [version |-> version, created_at |-> created, updated_at |-> updated,
     dependencies |-> dependencies, health_metrics |-> metrics, tags |-> tags]

NoMetadata == Metadata(<<>>, <<>>, <<>>, <<>>, BaseMetrics, <<>>)

\* the fixed texts of the header's template literals
VersionText == <<"V", "e", "r", "s", "i", "o", "n", ":", " ">>
CreatedText == <<"C", "r", "e", "a", "t", "e", "d", ":", " ">>
UpdatedText == <<"U", "p", "d", "a", "t", "e", "d", ":", " ">>
WordCountText == <<"-", " ", "W", "o", "r", "d", " ", "C", "o", "u", "n", "t", ":", " ">>
ReadingTimeText == <<"-", " ", "R", "e", "a", "d", "i", "n", "g", " ", "T", "i", "m", "e", ":", " ">>
MinutesText == <<" ", "m", "i", "n", "u", "t", "e", "s">>
TodosText == <<"-", " ", "T", "O", "D", "O", "s", ":", " ">>
CompletionText == <<"-", " ", "C", "o", "m", "p", "l", "e", "t", "i", "o", "n", ":", " ">>
PercentText == <<"%">>
SectionsText == <<"-", " ", "S", "e", "c", "t", "i", "o", "n", "s", ":", " ">>
CodeBlocksText == <<"-", " ", "C", "o", "d", "e", " ", "B", "l", "o", "c", "k", "s", ":", " ">>
DaysSinceText == <<"-", " ", "D", "a", "y", "s", " ", "S", "i", "n", "c", "e", " ", "L", "a", "s", "t", " ", "S", "n", "a", "p", "s", "h", "o", "t", ":", " ">>
TagsTitle == <<"T", "a", "g", "s", ":">>
MementorTs == <<"m", "e", "m", "e", "n", "t", "o", "r", "-", "t", "s">>
Version100 == <<"1", ".", "0", ".", "0">>
TagDocumentation == <<"d", "o", "c", "u", "m", "e", "n", "t", "a", "t", "i", "o", "n">>
TagSnapshot == <<"s", "n", "a", "p", "s", "h", "o", "t">>

\* `- ${dep.name}: ${dep.version}` for each dependency
RECURSIVE DependencyLines(_)
DependencyLines(deps) ==
    IF deps = <<>> THEN <<>>
    ELSE <<(<<"-", " ">> \o Head(deps).name \o <<":", " ">> \o Head(deps).version)>>
             \o DependencyLines(Tail(deps))

\* '', 'Health Metrics:' and one line per printed metric; `${x}` of a
\* number is String(x)
HealthLines(m) ==
    <<EmptyLine,
      HealthTitle,
      WordCountText \o NumberToString(m.word_count.val),
      ReadingTimeText \o NumberToString(m.reading_time.val) \o MinutesText,
      TodosText \o NumberToString(m.todo_count.val),
      CompletionText \o NumberToString(m.completion_percentage.val) \o PercentText,
      SectionsText \o NumberToString(m.section_count.val),
      CodeBlocksText \o NumberToString(m.code_blocks.val),
      DaysSinceText \o NumberToString(m.last_snapshot_delta.val)>>

\* '', 'Tags:' and `- ${tag}` for each tag, when there is a tag
TagLines(tags) ==
    IF Len(tags) > 0
    THEN <<EmptyLine, TagsTitle>> \o [i \in DOMAIN tags |-> <<"-", " ">> \o tags[i]]
    ELSE <<>>

\* generateMetadataHeader(metadata), as the lines of the joined header;
\* metadata.health_metrics is an object, which is truthy
generateMetadataHeader(md) ==
    <<HeaderTitle,
      VersionText \o md.version,
      CreatedText \o md.created_at,
      UpdatedText \o md.updated_at,
      EmptyLine,
      DependenciesTitle>>
        \o DependencyLines(md.dependencies)
        \o HealthLines(md.health_metrics)
        \o TagLines(md.tags)

\* createSnapshot for data with metadata: `${header}\n\n---\n\n${content}`,
\* body being the lines of the rendered template
createSnapshot(md, body) ==
    generateMetadataHeader(md) \o <<EmptyLine, Separator, EmptyLine>> \o body

----------------------------------------------------------------------------
(* Inputs of the generator: the metadata SnapshotGenerator.createSnapshot  *)
(* builds from the record of calculateHealthMetrics                        *)

\* word_count with reading_time = ceil(word_count / 200)
WordsAndMinutes == {<<1, 1>>, <<120, 1>>, <<300, 2>>}

\* todo_count with completion_percentage in tenths: 100 without todos,
\* else 100 * completed / todos
TodosAndCompletion == {<<0, 1000>>, <<1, 0>>, <<2, 500>>, <<8, 125>>, <<1, 2000>>}

\* section_count with section_depth; avg_section_length is word_count for
\* at most one section
SectionsAndDepth == {<<0, 0>>, <<1, 2>>, <<1, 6>>}

GeneratedMetrics ==
    {[HealthMetrics(Timestamp2, wm[1], wm[2], tc[1], <<>>, <<>>, 0, sd[1], sd[2], b, wm[1], 0, d)
         EXCEPT !.completion_percentage = Tenths(tc[2])] :
        wm \in WordsAndMinutes, tc \in TodosAndCompletion, sd \in SectionsAndDepth,
        b \in 0..MaxMetric, d \in 0..MaxMetric}

GeneratedMetadata ==
    {Metadata(Version100, Timestamp2, Timestamp2,
              <<[name |-> MementorTs, version |-> Version100]>>,
              m, <<TagDocumentation, TagSnapshot>>) : m \in GeneratedMetrics}

\* the rendered template
RenderedBody == <<FixedLoginIssue, EmptyLine, AddTests>>

----------------------------------------------------------------------------
(* Report Formatter *)

NoReport == <<>>

ComparisonTitle == <<"=", "=", "=", " ", "S", "N", "A", "P", "S", "H", "O", "T", " ", "C", "O", "M", "P", "A", "R", "I", "S", "O", "N", " ", "=", "=", "=">>
OldText == <<"O", "l", "d", ":", " ">>
NewText == <<"N", "e", "w", ":", " ">>
MetricsTitle == <<"=", "=", "=", " ", "M", "E", "T", "R", "I", "C", "S", " ", "C", "H", "A", "N", "G", "E", "S", " ", "=", "=", "=">>
AddedTitle == <<"=", "=", "=", " ", "A", "D", "D", "E", "D", " ", "C", "O", "N", "T", "E", "N", "T", " ", "=", "=", "=">>
RemovedTitle == <<"=", "=", "=", " ", "R", "E", "M", "O", "V", "E", "D", " ", "C", "O", "N", "T", "E", "N", "T", " ", "=", "=", "=">>
ModifiedTitle == <<"=", "=", "=", " ", "M", "O", "D", "I", "F", "I", "E", "D", " ", "C", "O", "N", "T", "E", "N", "T", " ", "=", "=", "=">>
TrueText == <<"t", "r", "u", "e">>
FalseText == <<"f", "a", "l", "s", "e">>

\* the characters of the field identifiers
KeyName ==
    [last_updated |-> <<"l", "a", "s", "t", "_", "u", "p", "d", "a", "t", "e", "d">>,
     word_count |-> <<"w", "o", "r", "d", "_", "c", "o", "u", "n", "t">>,
     reading_time |-> <<"r", "e", "a", "d", "i", "n", "g", "_", "t", "i", "m", "e">>,
     has_todos |-> <<"h", "a", "s", "_", "t", "o", "d", "o", "s">>,
     todo_count |-> <<"t", "o", "d", "o", "_", "c", "o", "u", "n", "t">>,
     linked_files |-> <<"l", "i", "n", "k", "e", "d", "_", "f", "i", "l", "e", "s">>,
     broken_links |-> <<"b", "r", "o", "k", "e", "n", "_", "l", "i", "n", "k", "s">>,
     completion_percentage |-> <<"c", "o", "m", "p", "l", "e", "t", "i", "o", "n", "_", "p", "e", "r", "c", "e", "n", "t", "a", "g", "e">>,
     section_count |-> <<"s", "e", "c", "t", "i", "o", "n", "_", "c", "o", "u", "n", "t">>,
     section_depth |-> <<"s", "e", "c", "t", "i", "o", "n", "_", "d", "e", "p", "t", "h">>,
     code_blocks |-> <<"c", "o", "d", "e", "_", "b", "l", "o", "c", "k", "s">>,
     avg_section_length |-> <<"a", "v", "g", "_", "s", "e", "c", "t", "i", "o", "n", "_", "l", "e", "n", "g", "t", "h">>,
     readability_score |-> <<"r", "e", "a", "d", "a", "b", "i", "l", "i", "t", "y", "_", "s", "c", "o", "r", "e">>,
     last_snapshot_delta |-> <<"l", "a", "s", "t", "_", "s", "n", "a", "p", "s", "h", "o", "t", "_", "d", "e", "l", "t", "a">>]

\* the arrow and the three trend glyphs of the template literals, each one
\* character of a string: U+2192, chart increasing, chart decreasing and
\* the right arrow emoji
Arrow == "->"
Increase == "increase"
Decrease == "decrease"
Unchanged == "unchanged"

toUpperCaseChar(c) ==
    IF \E i \in DOMAIN LowerCase : LowerCase[i] = c
    THEN UpperCase[CHOOSE i \in DOMAIN LowerCase : LowerCase[i] = c]
    ELSE c

\* parts.join(sep)
RECURSIVE join(_, _)
join(parts, sep) ==
    IF parts = <<>> THEN <<>>
    ELSE IF Len(parts) = 1 THEN parts[1]
    ELSE Head(parts) \o sep \o join(Tail(parts), sep)

\* path.basename(p): what follows the last '/'
basename(p) == LET parts == split(p, <<"/">>) IN parts[Len(parts)]

\* word.charAt(0).toUpperCase() + word.slice(1)
capitalize(word) ==
    IF word = <<>> THEN <<>> ELSE <<toUpperCaseChar(Head(word))>> \o Tail(word)

\* key.split('_').map(...).join(' ')
formattedKey(key) ==
    LET words == split(key, <<"_">>) IN
    join([i \in DOMAIN words |-> capitalize(words[i])], <<" ">>)

\* `${value}`: String(value) of a number, a string, a boolean or an array
\* of strings
StringOf(v) ==
    CASE v.type = "number"  -> NumberToString(v.val)
      [] v.type = "string"  -> v.val
      [] v.type = "boolean" -> IF v.val THEN TrueText ELSE FalseText
      [] v.type = "object"  -> join(v.val, <<",">>)

\* the glyphs of increase and decrease taken for each other
trendSwapped(delta) ==
    IF delta > 0 THEN Decrease ELSE IF delta < 0 THEN Increase ELSE Unchanged

\* change.delta > 0 ? increase : change.delta < 0 ? decrease : unchanged
trend(delta) ==
    IF delta > 0 THEN Increase ELSE IF delta < 0 THEN Decrease ELSE Unchanged

\* the two lines pushed for one entry of the changes
ChangeLines(change) ==
    <<formattedKey(KeyName[change.key]) \o <<":">>,
      IF change.old.type = "number" /\ change.new.type = "number"
      THEN <<" ", " ">> \o StringOf(change.old) \o <<" ", Arrow, " ">>
               \o StringOf(change.new) \o <<" ", trend(change.delta), " ", "(">>
               \o (IF change.delta >= 0 THEN <<"+">> ELSE <<>>)
               \o NumberToString(change.delta) \o <<")">>
      ELSE <<" ", " ">> \o StringOf(change.old) \o <<" ", Arrow, " ">>
               \o StringOf(change.new)>>

\* the loop over Object.entries(diff.metrics.changes), which gives the keys
\* in insertion order
RECURSIVE MetricsLines(_)
MetricsLines(entries) ==
    IF entries = <<>> THEN <<>>
    ELSE ChangeLines(Head(entries)) \o MetricsLines(Tail(entries))

\* the added block with its title whatever the length of the list
AddedBlockAlways(added) ==
    <<EmptyLine, AddedTitle>> \o [i \in DOMAIN added |-> <<"+", " ">> \o added[i]]

AddedBlock(added) ==
    IF Len(added) > 0
    THEN <<EmptyLine, AddedTitle>> \o [i \in DOMAIN added |-> <<"+", " ">> \o added[i]]
    ELSE <<>>

RemovedBlock(removed) ==
    IF Len(removed) > 0
    THEN <<EmptyLine, RemovedTitle>> \o [i \in DOMAIN removed |-> <<"-", " ">> \o removed[i]]
    ELSE <<>>

\* the three lines pushed for each modified pair
RECURSIVE PairLines(_)
PairLines(modified) ==
    IF modified = <<>> THEN <<>>
    ELSE <<(<<"-", " ">> \o Head(modified).old),
           (<<"+", " ">> \o Head(modified).new),
           EmptyLine>> \o PairLines(Tail(modified))

ModifiedBlock(modified) ==
    IF Len(modified) > 0
    THEN <<EmptyLine, ModifiedTitle>> \o PairLines(modified)
    ELSE <<>>

\* formatDiff(diff), as the lines that lines.join('\n') joins
formatDiff(diff) ==
    <<ComparisonTitle,
      OldText \o basename(diff.oldPath),
      NewText \o basename(diff.newPath),
      EmptyLine,
      MetricsTitle>>
        \o MetricsLines(diff.metrics.changes)
        \o AddedBlock(diff.content.added)
        \o RemovedBlock(diff.content.removed)
        \o ModifiedBlock(diff.content.modified)

----------------------------------------------------------------------------
(* SpecMetrics: compareMetrics applied to every pair of inputs, and the    *)
(* diff formatted                                                          *)

ContentIdle == oldLines = <<>> /\ newLines = <<>> /\ content = NoContent
MetricsIdle == oldMetrics = BaseMetrics /\ newMetrics = BaseMetrics /\ changes = <<>>
SnapshotsIdle ==
    /\ files = [old |-> Unreadable, new |-> Unreadable]
    /\ snapshots = [old |-> Pending, new |-> Pending]
    /\ result = Pending
GeneratorIdle == metadata = NoMetadata
ReportIdle == report = NoReport
ConcurrentIdle == comparisons = <<>>
DocumentIdle == doc = <<>> /\ now = 0 /\ outputDir = [flat |-> {}, dated |-> {}]
CommandIdle == snapshotsDir = [exists |-> FALSE, entries |-> {}] /\ command = <<>>
SessionIdle == manager = <<>> /\ sessionStore = <<>>
WatcherIdle == watcher = <<>>
LaterIdle == ConcurrentIdle /\ DocumentIdle /\ CommandIdle /\ SessionIdle /\ WatcherIdle

MetricsInit ==
    /\ pc = "compareMetrics"
    /\ oldMetrics \in MetricsInputs
    /\ newMetrics \in MetricsInputs
    /\ changes = <<>>
    /\ ContentIdle
    /\ SnapshotsIdle
    /\ GeneratorIdle
    /\ ReportIdle
    /\ LaterIdle

CompareMetrics ==
    /\ pc = "compareMetrics"
    /\ changes' = compareMetrics(oldMetrics, newMetrics)
    /\ pc' = "metricsCompared"
    /\ UNCHANGED <<oldMetrics, newMetrics, contentVars, snapshotVars, generatorVars, reportVars, laterVars>>

\* formatDiff called with the diff of two snapshots whose metrics and
\* bodies were just compared
FormatDiff ==
    /\ pc \in {"metricsCompared", "compared"}
    /\ report' = formatDiff([oldPath |-> OldPath,
                             newPath |-> NewPath,
                             metrics |-> [old |-> oldMetrics, new |-> newMetrics,
                                          changes |-> changes],
                             content |-> content])
    /\ pc' = "formatted"
    /\ UNCHANGED <<contentVars, metricsVars, snapshotVars, generatorVars, laterVars>>

MetricsNext == CompareMetrics \/ FormatDiff

SpecMetrics == MetricsInit /\ [][MetricsNext]_vars

----------------------------------------------------------------------------
(* SpecContent: compareContent applied to every input, and the diff        *)
(* formatted                                                               *)

ContentInit ==
    /\ pc = "compareContent"
    /\ \E input \in ContentInputs :
          /\ oldLines = input[1]
          /\ newLines = input[2]
    /\ content = NoContent
    /\ MetricsIdle
    /\ SnapshotsIdle
    /\ GeneratorIdle
    /\ ReportIdle
    /\ LaterIdle

CompareContent ==
    /\ pc = "compareContent"
    /\ content' = compareContent(oldLines, newLines)
    /\ pc' = "compared"
    /\ UNCHANGED <<oldLines, newLines, metricsVars, snapshotVars, generatorVars, reportVars, laterVars>>

ContentNext == CompareContent \/ FormatDiff

SpecContent == ContentInit /\ [][ContentNext]_vars

----------------------------------------------------------------------------
(* SpecSnapshots: one call of compareSnapshots. Both parseSnapshot calls    *)
(* start at once and wait for their fs.readFile; the two reads settle in   *)
(* either order. The callback of a read runs the rest of parseSnapshot     *)
(* and, through the promise jobs it queues, Promise.all and the rest of    *)
(* compareSnapshots, before the other read's callback can run.             *)

SnapshotsInit ==
    /\ pc = "await"
    /\ \E pair \in FilePairs : files = [old |-> pair[1], new |-> pair[2]]
    /\ snapshots = [old |-> Pending, new |-> Pending]
    /\ result = Pending
    /\ ContentIdle
    /\ MetricsIdle
    /\ GeneratorIdle
    /\ ReportIdle
    /\ LaterIdle

ReadSettles(side) ==
    /\ pc # "createSnapshot"
    /\ snapshots[side].state = "pending"
    /\ snapshots' = [snapshots EXCEPT ![side] = parseSnapshot(files[side])]
    /\ result' = awaitAll(result, side, snapshots')
    /\ pc' = IF result'.state = "pending" THEN "await"
             ELSE IF result'.state = "fulfilled" THEN "returned" ELSE "threw"
    /\ UNCHANGED <<files, contentVars, metricsVars, generatorVars, reportVars, laterVars>>

OldReadSettles == ReadSettles("old")
NewReadSettles == ReadSettles("new")

SnapshotsNext == OldReadSettles \/ NewReadSettles

SpecSnapshots == SnapshotsInit /\ [][SnapshotsNext]_vars

----------------------------------------------------------------------------
(* SpecParse: compareSnapshots called on a snapshot whose metadata section *)
(* was written or edited by hand and a snapshot of the generator           *)

ParseInit ==
    /\ pc = "await"
    /\ \E pair \in EditedPairs : files = [old |-> pair[1], new |-> pair[2]]
    /\ snapshots = [old |-> Pending, new |-> Pending]
    /\ result = Pending
    /\ ContentIdle
    /\ MetricsIdle
    /\ GeneratorIdle
    /\ ReportIdle
    /\ LaterIdle

\* formatDiff called with the SnapshotDiff compareSnapshots returned, as
\* handleCompareCommand does
FormatResult ==
    /\ pc = "returned"
    /\ report' = formatDiff(result.value)
    /\ pc' = "formatted"
    /\ UNCHANGED <<contentVars, metricsVars, snapshotVars, generatorVars, laterVars>>

ParseNext == OldReadSettles \/ NewReadSettles \/ FormatResult

SpecParse == ParseInit /\ [][ParseNext]_vars

----------------------------------------------------------------------------
(* SpecRoundTrip: the generator writes a snapshot, which compareSnapshots  *)
(* then reads as the new snapshot beside an older one                      *)

RoundTripInit ==
    /\ pc = "createSnapshot"
    /\ metadata \in GeneratedMetadata
    /\ files = [old |-> File(SnapshotA), new |-> Unreadable]
    /\ snapshots = [old |-> Pending, new |-> Pending]
    /\ result = Pending
    /\ ContentIdle
    /\ MetricsIdle
    /\ ReportIdle
    /\ LaterIdle

\* TemplateRenderer.createSnapshot, and the file written from its result
CreateSnapshot ==
    /\ pc = "createSnapshot"
    /\ files' = [files EXCEPT !.new = File(createSnapshot(metadata, RenderedBody))]
    /\ pc' = "await"
    /\ UNCHANGED <<snapshots, result, contentVars, metricsVars, generatorVars, reportVars, laterVars>>

RoundTripNext == CreateSnapshot \/ OldReadSettles \/ NewReadSettles

SpecRoundTrip == RoundTripInit /\ [][RoundTripNext]_vars

----------------------------------------------------------------------------
(* Claims about the content differ, checked under SpecContent *)

Compared == pc = "compared"

\* the old sides and the new sides of the modified pairs
ModifiedOld == {content.modified[k].old : k \in DOMAIN content.modified}
ModifiedNew == [k \in DOMAIN content.modified |-> content.modified[k].new]

C1_Scenario ==
    Compared /\ oldLines = ScenarioOld /\ newLines = ScenarioNew

\* C1, as stated: the diff of ['Fixed login bug', 'Add tests'] against
\* ['Fixed login issue', 'Add tests', 'Update docs'] has the one modified
\* pair {old: 'Fixed login bug', new: 'Fixed login issue'}, added =
\* ['Update docs'] and removed = [].
C1_AsStated ==
    C1_Scenario =>
        content = [added    |-> <<UpdateDocs>>,
                   removed  |-> <<>>,
                   modified |-> <<[old |-> FixedLoginBug, new |-> FixedLoginIssue]>>]

\* C1, amended: the two lines share 2 of 3 words, which is below 70%, so
\* the diff of the scenario is added = ['Fixed login issue', 'Update docs'],
\* removed = ['Fixed login bug'] and no modified pair.
C1_ScenarioDiff ==
    C1_Scenario =>
        content = [added    |-> <<FixedLoginIssue, UpdateDocs>>,
                   removed  |-> <<FixedLoginBug>>,
                   modified |-> <<>>]

C1_Witness == C1_Scenario /\ Len(content.added) = 2

\* C2: a line that occurs verbatim in both oldLines and newLines is in no
\* bucket of the diff: not in added, not in removed, and neither side of any
\* modified pair.
C2_VerbatimInNoBucket ==
    Compared =>
        \A line \in Range(oldLines) \cap Range(newLines) :
            /\ line \notin Range(content.added)
            /\ line \notin Range(content.removed)
            /\ line \notin ModifiedOld
            /\ line \notin Range(ModifiedNew)

\* C3: every old line that is not verbatim in newLines is in removed exactly
\* when it is not the old side of a modified pair, each of its occurrences is
\* then in removed, and no line is in both removed and an old side.
C3_RemovedOrModifiedOld ==
    Compared =>
        /\ \A line \in Range(oldLines) \ Range(newLines) :
              /\ (line \in Range(content.removed)) <=> (line \notin ModifiedOld)
              /\ line \in Range(content.removed) =>
                    Count(content.removed, line) = Count(oldLines, line)
        /\ Range(content.removed) \cap ModifiedOld = {}
        /\ Range(content.removed) \subseteq Range(oldLines) \ Range(newLines)

\* an old line consumed by a modified pair next to an old line removed
C3_Witness ==
    /\ Compared
    /\ \E line \in Range(oldLines) \ Range(newLines) : line \in ModifiedOld
    /\ content.removed # <<>>

\* C4: every occurrence of a new line that is not verbatim in oldLines is
\* recorded once, in added or as the new side of a modified pair and never
\* in both; a new line that is verbatim in oldLines is in neither; and
\* nothing else is recorded.
C4_AddedOrModifiedNew ==
    Compared =>
        /\ \A line \in Range(newLines) \ Range(oldLines) :
              /\ Count(content.added, line) + Count(ModifiedNew, line)
                     = Count(newLines, line)
              /\ Count(content.added, line) = 0 \/ Count(ModifiedNew, line) = 0
        /\ \A line \in Range(newLines) \cap Range(oldLines) :
              Count(content.added, line) = 0 /\ Count(ModifiedNew, line) = 0
        /\ Range(content.added) \cup Range(ModifiedNew) \subseteq Range(newLines)

\* a new line occurring twice and paired twice, next to a new line added
\* and a new line that is verbatim in oldLines
C4_Witness ==
    /\ Compared
    /\ \E line \in Range(newLines) : Count(ModifiedNew, line) = 2
    /\ content.added # <<>>
    /\ Range(newLines) \cap Range(oldLines) # {}

\* the words of x: its lower-cased pieces between runs of white space
W(x) == WordSet(x)

RatioAtLeast70(a, b) ==
    10 * Cardinality(W(a) \cap W(b)) >= 7 * Max(Cardinality(W(a)), Cardinality(W(b)))

\* C5: for one old line a and one new line b, a # b: if the shared words
\* are at least 70% of the larger word set (exactly 7 of 10 included) the
\* diff is the one modified pair {old: a, new: b}, nothing added or removed;
\* below 70% it is added = [b], removed = [a] and no modified pair.
C5_ThresholdBoundary ==
    (Compared /\ Len(oldLines) = 1 /\ Len(newLines) = 1 /\ oldLines[1] # newLines[1]) =>
        LET a == oldLines[1]
            b == newLines[1]
        IN  IF RatioAtLeast70(a, b)
            THEN content = [added |-> <<>>, removed |-> <<>>,
                            modified |-> <<[old |-> a, new |-> b]>>]
            ELSE content = [added |-> <<b>>, removed |-> <<a>>, modified |-> <<>>]

\* two lines of ten words sharing exactly seven, reported as modified
C5_Witness ==
    /\ Compared
    /\ oldLines = <<TenWords>>
    /\ newLines = <<TenWordsSevenShared>>
    /\ content.modified = <<[old |-> TenWords, new |-> TenWordsSevenShared]>>

----------------------------------------------------------------------------
(* Claims about the metric differ, checked under SpecMetrics *)

MetricsCompared == pc = "metricsCompared"

\* the keys of the changes map
ChangedKeys == {changes[i].key : i \in DOMAIN changes}

\* C6: the metric diff of a record against itself (an equal record, built
\* separately, as two parses of one file are) is the empty changes map.
C6_DiffOfSelfEmpty ==
    (MetricsCompared /\ oldMetrics = newMetrics) => changes = <<>>

\* a record with a non-empty list and non-zero counts compared with itself
C6_Witness ==
    /\ MetricsCompared
    /\ oldMetrics = newMetrics
    /\ oldMetrics.linked_files.val # <<>>
    /\ oldMetrics.word_count.val > 0
    /\ changes = <<>>

\* C7: the changes map has an entry for a field exactly when the old and
\* the new value of the field differ as values (lists by their content),
\* and at most one entry for it.
C7_ChangedIffDifferent ==
    MetricsCompared =>
        /\ \A i \in DOMAIN Keys :
              (Keys[i] \in ChangedKeys) <=> (oldMetrics[Keys[i]] # newMetrics[Keys[i]])
        /\ \A i, j \in DOMAIN changes : changes[i].key = changes[j].key => i = j
        /\ \A i \in DOMAIN changes :
              /\ changes[i].old = oldMetrics[changes[i].key]
              /\ changes[i].new = newMetrics[changes[i].key]

\* equal non-empty lists left out next to a changed number
C7_Witness ==
    /\ MetricsCompared
    /\ oldMetrics.linked_files.val # <<>>
    /\ oldMetrics.linked_files = newMetrics.linked_files
    /\ "linked_files" \notin ChangedKeys
    /\ "word_count" \in ChangedKeys

\* C8: a changed field whose old and new values are both numbers carries
\* delta = new - old; a changed field of another type (last_updated,
\* has_todos, the lists) carries no delta.
C8_DeltaIsNewMinusOld ==
    MetricsCompared =>
        \A i \in DOMAIN changes :
            LET key == changes[i].key IN
            IF key \in NumericKeys
            THEN /\ "delta" \in DOMAIN changes[i]
                 /\ changes[i].delta = newMetrics[key].val - oldMetrics[key].val
            ELSE "delta" \notin DOMAIN changes[i]

\* a negative delta, and changed fields of each other type
C8_Witness ==
    /\ MetricsCompared
    /\ \E i \in DOMAIN changes :
          changes[i].key \in NumericKeys /\ changes[i].delta < 0
    /\ {"last_updated", "has_todos", "linked_files"} \subseteq ChangedKeys

----------------------------------------------------------------------------
(* Claims about compareSnapshots and parseSnapshot, checked under          *)
(* SpecSnapshots                                                           *)

Sides == {"old", "new"}

\* the file cannot be read, or its text has no line that is exactly '---'
Invalid(side) ==
    \/ ~files[side].readable
    \/ \A i \in DOMAIN files[side].lines : files[side].lines[i] # Separator

\* C9: compareSnapshots is all-or-nothing. If either file cannot be read or
\* has no line exactly '---', the call never returns a SnapshotDiff and has
\* failed with an error as soon as that file's read has settled, whether or
\* not the other document is valid and whichever read settles first; a
\* failed call carries no diff, and a returned diff has all its parts.
C9_AllOrNothing ==
    /\ (Invalid("old") \/ Invalid("new")) => result.state # "fulfilled"
    /\ \A side \in Sides :
          (Invalid(side) /\ snapshots[side].state # "pending") =>
              /\ result.state = "rejected"
              /\ pc = "threw"
    /\ result.state = "rejected" =>
          /\ "value" \notin DOMAIN result
          /\ result.error \in {IOError, FormatError}
    /\ result.state = "fulfilled" =>
          /\ ~Invalid("old") /\ ~Invalid("new")
          /\ DOMAIN result.value = {"oldPath", "newPath", "metrics", "content"}

\* the valid old document was parsed first, then the new one turned out to
\* have no separator: the call has failed
C9_Witness ==
    /\ ~Invalid("old")
    /\ snapshots.old.state = "fulfilled"
    /\ files.new.readable
    /\ snapshots.new = Rejected(FormatError)
    /\ result = Rejected(FormatError)

\* C10: parsing splits the document at the first line that is exactly
\* '---': the metadata section is every line before it, the body is every
\* line after it without the white-space-only lines, and a later '---' stays
\* in the body as a content line.
C10_SplitAtFirstSeparator ==
    \A side \in Sides :
        snapshots[side].state = "fulfilled" =>
            LET lines == files[side].lines
                parsed == snapshots[side].value
            IN  \E k \in DOMAIN lines :
                    /\ lines[k] = Separator
                    /\ \A j \in 1..(k - 1) : lines[j] # Separator
                    /\ parsed.metadataLines = SubSeq(lines, 1, k - 1)
                    /\ parsed.content =
                          SelectSeq(SubSeq(lines, k + 1, Len(lines)),
                                    LAMBDA line : \E i \in DOMAIN line :
                                                     line[i] \notin {" ", "\t", "\r"})

\* a parsed document with metadata, a second '---' kept in its body and a
\* blank line dropped from it
C10_Witness ==
    \E side \in Sides :
        /\ snapshots[side].state = "fulfilled"
        /\ snapshots[side].value.metadataLines # <<>>
        /\ Separator \in Range(snapshots[side].value.content)
        /\ \E i \in DOMAIN files[side].lines :
              /\ i > Len(snapshots[side].value.metadataLines) + 1
              /\ ~NotBlank(files[side].lines[i])

----------------------------------------------------------------------------
(* Further claims about the content differ, checked under SpecContent *)

\* the positions of the old lines that meet the threshold for a new line
Candidates(b) == {i \in DOMAIN oldLines : RatioAtLeast70(oldLines[i], b)}

\* old line a is strictly more similar to b than old line c is
MoreSimilar(a, c, b) ==
    Cardinality(W(a) \cap W(b)) * Max(Cardinality(W(c)), Cardinality(W(b)))
        > Cardinality(W(c) \cap W(b)) * Max(Cardinality(W(a)), Cardinality(W(b)))

\* C14: when several old lines meet the similarity threshold for a new
\* line, the modified pair uses the first such line in old-sequence order,
\* even when a later old line has a strictly higher similarity.
C14_FirstMatchWins ==
    Compared =>
        \A k \in DOMAIN content.modified :
            LET b == content.modified[k].new IN
            /\ Candidates(b) # {}
            /\ content.modified[k].old = oldLines[FirstIndex(Candidates(b))]

\* a pair whose new line has a second candidate, later in oldLines and
\* strictly more similar than the old line of the pair
C14_Witness ==
    /\ Compared
    /\ \E k \in DOMAIN content.modified :
          LET b == content.modified[k].new IN
          \E j \in Candidates(b) :
              /\ j > FirstIndex(Candidates(b))
              /\ MoreSimilar(oldLines[j], content.modified[k].old, b)

\* s can be had from t by leaving elements of t out
RECURSIVE IsSubsequence(_, _)
IsSubsequence(s, t) ==
    IF s = <<>> THEN TRUE
    ELSE IF t = <<>> THEN FALSE
    ELSE IF Head(s) = Head(t) THEN IsSubsequence(Tail(s), Tail(t))
    ELSE IsSubsequence(s, Tail(t))

\* C15: output ordering: added is a subsequence of newLines in their
\* original order, removed is a subsequence of oldLines in their original
\* order, and the new sides of the modified pairs appear in the order in
\* which those lines occur in newLines.
C15_OutputOrdering ==
    Compared =>
        /\ IsSubsequence(content.added, newLines)
        /\ IsSubsequence(content.removed, oldLines)
        /\ IsSubsequence(ModifiedNew, newLines)

\* two different lines have been added and a line removed
C15_Witness ==
    /\ Compared
    /\ Len(content.added) >= 2
    /\ content.added[1] # content.added[2]
    /\ content.removed # <<>>

\* C16: if oldLines is empty the diff is added = newLines, removed = [],
\* modified = []; if newLines is empty the diff is removed = oldLines,
\* added = [], modified = [].
C16_EmptySide ==
    Compared =>
        /\ oldLines = <<>> =>
              content = [added |-> newLines, removed |-> <<>>, modified |-> <<>>]
        /\ newLines = <<>> =>
              content = [added |-> <<>>, removed |-> oldLines, modified |-> <<>>]

\* an empty old body has been compared with a body of several lines
C16_Witness ==
    /\ Compared
    /\ oldLines = <<>>
    /\ Len(newLines) >= 2
    /\ content.added = newLines

----------------------------------------------------------------------------
(* Claims about the metric extractor, checked under SpecParse *)

\* the labels of the metadata entries and the fields read from them
LabelFields ==
    {<<KeyWordCount, "word_count">>, <<KeyReadingTime, "reading_time">>,
     <<KeyTODOs, "todo_count">>, <<KeyCompletion, "completion_percentage">>,
     <<KeySections, "section_count">>, <<KeyCodeBlocks, "code_blocks">>,
     <<KeyDaysSince, "last_snapshot_delta">>}

Label(key) == <<"-", " ">> \o key \o <<":">>

\* the first entry of a label in a metadata section, 0 when it has none
EntryOf(lines, key) == FirstIndex({k \in DOMAIN lines : includes(lines[k], Label(key))})

\* the text of an entry after its label
ValueOf(line, key) ==
    SubSeq(line, indexOf(line, Label(key)) + Len(Label(key)), Len(line))

\* a text that starts no number: after white space and an optional sign
\* comes neither a digit nor a decimal point
StartsNoNumber(text) ==
    LET s == trimStart(text)
        body == IF s # <<>> /\ Head(s) \in {"+", "-"} THEN Tail(s) ELSE s
    IN  body = <<>> \/ ~(IsDigit(Head(body)) \/ Head(body) = ".")

\* the label is absent, or its value cannot be parsed as a number
NoValue(lines, key) ==
    \/ EntryOf(lines, key) = 0
    \/ StartsNoNumber(ValueOf(lines[EntryOf(lines, key)], key))

\* C11: for any metadata lines metric extraction never throws: the parse of
\* a readable file with a separator is fulfilled, and a label that is absent
\* or whose value cannot be parsed as a number yields 0 for its field (and
\* has_todos false for the TODOs label) in the returned HealthMetrics.
C11_ExtractionNeverThrows ==
    \A side \in Sides :
        (/\ snapshots[side].state # "pending"
         /\ files[side].readable
         /\ Separator \in Range(files[side].lines))
        => /\ snapshots[side].state = "fulfilled"
           /\ LET lines == snapshots[side].value.metadataLines
                  metrics == snapshots[side].value.metadata.health_metrics
              IN  /\ \A lf \in LabelFields :
                        NoValue(lines, lf[1]) => metrics[lf[2]] = Num(0)
                  /\ NoValue(lines, KeyTODOs) => metrics.has_todos = Bool(FALSE)

\* a snapshot has been parsed whose TODOs entry has no number and which
\* has no Word Count entry
C11_Witness ==
    \E side \in Sides :
        /\ snapshots[side].state = "fulfilled"
        /\ LET lines == snapshots[side].value.metadataLines IN
           /\ EntryOf(lines, KeyTODOs) # 0
           /\ NoValue(lines, KeyTODOs)
           /\ EntryOf(lines, KeyWordCount) = 0
           /\ EntryOf(lines, KeyCompletion) # 0

\* C17: metadata whose TODOs entry is '- TODOs: 0' and whose Completion
\* entry is '- Completion: 100%' is parsed to has_todos = false,
\* todo_count = 0 and completion_percentage = 100.
C17_NoTodosComplete ==
    \A side \in Sides :
        snapshots[side].state = "fulfilled"
        => LET lines == snapshots[side].value.metadataLines
               metrics == snapshots[side].value.metadata.health_metrics
           IN  (/\ EntryOf(lines, KeyTODOs) # 0
                /\ lines[EntryOf(lines, KeyTODOs)] = TodosZero
                /\ EntryOf(lines, KeyCompletion) # 0
                /\ lines[EntryOf(lines, KeyCompletion)] = Completion100)
               => /\ metrics.has_todos = Bool(FALSE)
                  /\ metrics.todo_count = Num(0)
                  /\ metrics.completion_percentage = Num(100)

\* a hand-written section of just the two entries has been parsed
C17_Witness ==
    \E side \in Sides :
        /\ snapshots[side].state = "fulfilled"
        /\ snapshots[side].value.metadataLines = <<TodosZero, Completion100>>
        /\ snapshots[side].value.metadata.health_metrics.completion_percentage.val > 0

\* C13: every HealthMetrics record returned by the parser, for any metadata
\* text (hand-edited values included), has every numeric field non-negative
\* and has_todos equal to (todo_count > 0).
C13_NonNegativeAndHasTodos ==
    \A side \in Sides :
        snapshots[side].state = "fulfilled"
        => LET metrics == snapshots[side].value.metadata.health_metrics IN
           /\ \A key \in NumericKeys : metrics[key].val >= 0
           /\ metrics.has_todos = Bool(metrics.todo_count.val > 0)

----------------------------------------------------------------------------
(* Claims about the generator and the parser, checked under SpecRoundTrip *)

\* the fields the metadata header prints
RoundTripKeys ==
    {"word_count", "reading_time", "todo_count", "completion_percentage",
     "section_count", "code_blocks", "last_snapshot_delta"}

\* the generated snapshot has been read
GeneratedRead == pc # "createSnapshot" /\ snapshots.new.state # "pending"

\* C12: round trip: for every HealthMetrics record with non-negative values,
\* parsing the snapshot text made of the generator's metadata header and the
\* '---' separator reproduces exactly the same word_count, reading_time,
\* todo_count, completion_percentage, section_count, code_blocks and
\* last_snapshot_delta.
C12_RoundTrip ==
    GeneratedRead
    => /\ snapshots.new.state = "fulfilled"
       /\ \A key \in RoundTripKeys :
             snapshots.new.value.metadata.health_metrics[key]
                 = metadata.health_metrics[key]

\* a snapshot with 300 words, 8 todos and a completion of 12.5% has been
\* written and read back
C12_Witness ==
    /\ GeneratedRead
    /\ metadata.health_metrics.word_count = Num(300)
    /\ metadata.health_metrics.todo_count = Num(8)
    /\ metadata.health_metrics.completion_percentage = Tenths(125)
    /\ metadata.health_metrics.last_snapshot_delta = Num(1)

\* C18: for any snapshot text, the parsed metrics have linked_files = [],
\* broken_links = [], section_depth = 0, avg_section_length = 0 and
\* readability_score = 0, whatever values the snapshot generator computed
\* for them.
C18_UnprintedFieldsReset ==
    \A side \in Sides :
        snapshots[side].state = "fulfilled"
        => LET metrics == snapshots[side].value.metadata.health_metrics IN
           /\ metrics.linked_files = Arr(<<>>)
           /\ metrics.broken_links = Arr(<<>>)
           /\ metrics.section_depth = Num(0)
           /\ metrics.avg_section_length = Num(0)
           /\ metrics.readability_score = Num(0)

\* a snapshot generated with a section of depth 6 and an average section
\* length of 300 words has been read back
C18_Witness ==
    /\ GeneratedRead
    /\ snapshots.new.state = "fulfilled"
    /\ metadata.health_metrics.section_count = Num(1)
    /\ metadata.health_metrics.section_depth = Num(6)
    /\ metadata.health_metrics.avg_section_length = Num(300)

----------------------------------------------------------------------------
(* Claims about the report formatter, checked under SpecContent (content   *)
(* blocks) and SpecMetrics (metric lines)                                  *)

Formatted == pc = "formatted"

\* the position of a block's title in the report, 0 when it is not there
TitleAt(title) == FirstIndex({i \in DOMAIN report : report[i] = title})

\* C19: in the formatted report each of the three content blocks (added,
\* removed, modified) is present if and only if its list is non-empty; added
\* lines are prefixed '+ ', removed lines '- ', and each modified pair is
\* printed as its '- old' line directly followed by its '+ new' line and then
\* an empty line; the blocks appear in the order added, removed, modified.
C19_ContentBlocks ==
    Formatted =>
        LET a == TitleAt(AddedTitle)
            r == TitleAt(RemovedTitle)
            m == TitleAt(ModifiedTitle)
        IN  /\ a # 0 <=> content.added # <<>>
            /\ r # 0 <=> content.removed # <<>>
            /\ m # 0 <=> content.modified # <<>>
            /\ a # 0 =>
                  /\ Len(report) >= a + Len(content.added)
                  /\ \A i \in DOMAIN content.added :
                        report[a + i] = <<"+", " ">> \o content.added[i]
            /\ r # 0 =>
                  /\ Len(report) >= r + Len(content.removed)
                  /\ \A i \in DOMAIN content.removed :
                        report[r + i] = <<"-", " ">> \o content.removed[i]
            /\ m # 0 =>
                  /\ Len(report) = m + 3 * Len(content.modified)
                  /\ \A k \in DOMAIN content.modified :
                        /\ report[m + 3 * k - 2] = <<"-", " ">> \o content.modified[k].old
                        /\ report[m + 3 * k - 1] = <<"+", " ">> \o content.modified[k].new
                        /\ report[m + 3 * k] = <<>>
            /\ (a # 0 /\ r # 0) => a + Len(content.added) < r
            /\ (a # 0 /\ m # 0) => a + Len(content.added) < m
            /\ (r # 0 /\ m # 0) => r + Len(content.removed) < m

\* a report with all three blocks has been formatted
C19_Witness ==
    /\ Formatted
    /\ content.added # <<>>
    /\ content.removed # <<>>
    /\ content.modified # <<>>

\* the titles of the fields, written out
TitleCase ==
    [last_updated |-> <<"L", "a", "s", "t", " ", "U", "p", "d", "a", "t", "e", "d">>,
     word_count |-> <<"W", "o", "r", "d", " ", "C", "o", "u", "n", "t">>,
     reading_time |-> <<"R", "e", "a", "d", "i", "n", "g", " ", "T", "i", "m", "e">>,
     has_todos |-> <<"H", "a", "s", " ", "T", "o", "d", "o", "s">>,
     todo_count |-> <<"T", "o", "d", "o", " ", "C", "o", "u", "n", "t">>,
     linked_files |-> <<"L", "i", "n", "k", "e", "d", " ", "F", "i", "l", "e", "s">>,
     broken_links |-> <<"B", "r", "o", "k", "e", "n", " ", "L", "i", "n", "k", "s">>,
     completion_percentage |-> <<"C", "o", "m", "p", "l", "e", "t", "i", "o", "n", " ", "P", "e", "r", "c", "e", "n", "t", "a", "g", "e">>,
     section_count |-> <<"S", "e", "c", "t", "i", "o", "n", " ", "C", "o", "u", "n", "t">>,
     section_depth |-> <<"S", "e", "c", "t", "i", "o", "n", " ", "D", "e", "p", "t", "h">>,
     code_blocks |-> <<"C", "o", "d", "e", " ", "B", "l", "o", "c", "k", "s">>,
     avg_section_length |-> <<"A", "v", "g", " ", "S", "e", "c", "t", "i", "o", "n", " ", "L", "e", "n", "g", "t", "h">>,
     readability_score |-> <<"R", "e", "a", "d", "a", "b", "i", "l", "i", "t", "y", " ", "S", "c", "o", "r", "e">>,
     last_snapshot_delta |-> <<"L", "a", "s", "t", " ", "S", "n", "a", "p", "s", "h", "o", "t", " ", "D", "e", "l", "t", "a">>]

\* the line of a change of numbers: old, new, the glyph and the signed delta
NumericLine(change, glyph) ==
    <<" ", " ">> \o NumberToString(change.old.val) \o <<" ", Arrow, " ">>
        \o NumberToString(change.new.val) \o <<" ", glyph, " ", "(">>
        \o (IF change.delta < 0 THEN <<>> ELSE <<"+">>)
        \o NumberToString(change.delta) \o <<")">>

\* the line of any other change: old and new
PlainLine(change) ==
    <<" ", " ">> \o StringOf(change.old) \o <<" ", Arrow, " ">> \o StringOf(change.new)

\* C20: in the formatted report every changed metric is titled by its field
\* identifier converted to space-separated title case (word_count becomes
\* 'Word Count'); when both values are numeric the line shows old, new, a
\* trend glyph that is 'increase' exactly when delta > 0, 'decrease' exactly
\* when delta < 0 and 'unchanged' otherwise, and the delta with an explicit
\* '+' when it is not negative; otherwise the line shows only old and new.
C20_MetricLines ==
    Formatted =>
        /\ Len(report) >= 5 + 2 * Len(changes)
        /\ \A i \in DOMAIN changes :
              LET change == changes[i]
                  numeric == change.old.type = "number" /\ change.new.type = "number"
              IN  /\ report[5 + 2 * i - 1] = TitleCase[change.key] \o <<":">>
                  /\ numeric =>
                        \E glyph \in {Increase, Decrease, Unchanged} :
                            /\ report[5 + 2 * i] = NumericLine(change, glyph)
                            /\ glyph = Increase <=> change.delta > 0
                            /\ glyph = Decrease <=> change.delta < 0
                  /\ ~numeric => report[5 + 2 * i] = PlainLine(change)

\* a report with a rising number, a falling number and a change of another
\* type has been formatted
C20_Witness ==
    /\ Formatted
    /\ \E i \in DOMAIN changes : "delta" \in DOMAIN changes[i] /\ changes[i].delta > 0
    /\ \E i \in DOMAIN changes : "delta" \in DOMAIN changes[i] /\ changes[i].delta < 0
    /\ \E i \in DOMAIN changes : changes[i].old.type # "number"

----------------------------------------------------------------------------
(* Claims about the modified pairs, checked under SpecContent *)

\* C24: the modified list pairs the lines one to one: an old line is the
\* old side of no more pairs than oldLines holds it times, so that a line
\* found once in oldLines is consumed by at most one new line
C24_OneToOne ==
    Compared =>
        \A k \in DOMAIN content.modified :
            Cardinality({j \in DOMAIN content.modified :
                            content.modified[j].old = content.modified[k].old})
                <= Count(oldLines, content.modified[k].old)

\* C25: every modified pair has an element of oldLines as its old side and,
\* as its new side, an element of newLines that oldLines does not hold, the
\* two sharing at least 70% of the larger word set; and no old line shares
\* that much with an added line
C25_PairsSound ==
    Compared =>
        /\ \A k \in DOMAIN content.modified :
              LET pair == content.modified[k]
              IN /\ pair.old \in Range(oldLines)
                 /\ pair.new \in Range(newLines)
                 /\ pair.new \notin Range(oldLines)
                 /\ RatioAtLeast70(pair.old, pair.new)
        /\ \A k \in DOMAIN content.added :
              \A line \in Range(oldLines) : ~RatioAtLeast70(line, content.added[k])

\* a diff with a modified pair and an added line, of bodies that share a line
C25_Witness ==
    /\ Compared
    /\ content.modified # <<>>
    /\ content.added # <<>>
    /\ Range(newLines) \cap Range(oldLines) # {}

----------------------------------------------------------------------------
(* Claims about the report of a comparison, checked under SpecParse *)

\* the changes of the SnapshotDiff returned that carry a delta
NumericChanges ==
    {i \in DOMAIN result.value.metrics.changes :
        "delta" \in DOMAIN result.value.metrics.changes[i]}

\* C26: in the SnapshotDiff compareSnapshots returns every change of two
\* numbers has a delta other than 0, and the report formatDiff makes of it
\* holds neither the 'unchanged' glyph nor a delta printed as +0
C26_NoZeroDelta ==
    /\ pc \in {"returned", "formatted"} =>
          \A i \in NumericChanges : result.value.metrics.changes[i].delta # 0
    /\ pc = "formatted" =>
          \A i \in DOMAIN report :
              /\ Unchanged \notin Range(report[i])
              /\ ~includes(report[i], <<"(", "+", "0", ")">>)

\* the report of a diff with a change of numbers
C26_Witness ==
    /\ pc = "formatted"
    /\ NumericChanges # {}
    /\ \E i \in DOMAIN report : Increase \in Range(report[i])

----------------------------------------------------------------------------
(* SpecConcurrent: several calls of compareSnapshots on the same two       *)
(* files, which do not change, under way at the same time. A call keeps    *)
(* its two parseSnapshot promises and its own promise in the locals of     *)
(* its activation; SnapshotComparer has no fields. The reads of all the    *)
(* calls settle in any order, and the callback of a read runs as in        *)
(* SpecSnapshots.                                                          *)

CallIds == 1 .. MaxCalls

\* a call that has started both reads; order lists the reads that settled
Started == [snapshots |-> [old |-> Pending, new |-> Pending],
            result    |-> Pending,
            order     |-> <<>>]

ConcurrentInit ==
    /\ pc = "await"
    /\ \E old \in PickedFiles, new \in PickedFiles : files = [old |-> old, new |-> new]
    /\ snapshots = [old |-> Pending, new |-> Pending]
    /\ result = Pending
    /\ comparisons = [c \in CallIds |-> Started]
    /\ ContentIdle
    /\ MetricsIdle
    /\ GeneratorIdle
    /\ ReportIdle
    /\ DocumentIdle
    /\ CommandIdle
    /\ SessionIdle
    /\ WatcherIdle

CallReadSettles(c, side) ==
    /\ comparisons[c].snapshots[side].state = "pending"
    /\ LET promises == [comparisons[c].snapshots EXCEPT ![side] = parseSnapshot(files[side])]
       IN comparisons' = [comparisons EXCEPT ![c] =
                       [snapshots |-> promises,
                        result    |-> awaitAll(comparisons[c].result, side, promises),
                        order     |-> Append(comparisons[c].order, side)]]
    /\ UNCHANGED <<pc, contentVars, metricsVars, snapshotVars, generatorVars, reportVars, documentVars, commandVars, sessionVars, watcherVars>>

CallOldReadSettles == \E c \in CallIds : CallReadSettles(c, "old")
CallNewReadSettles == \E c \in CallIds : CallReadSettles(c, "new")

ConcurrentNext == CallOldReadSettles \/ CallNewReadSettles

SpecConcurrent == ConcurrentInit /\ [][ConcurrentNext]_vars

----------------------------------------------------------------------------
(* Claims about concurrent calls of compareSnapshots, checked under        *)
(* SpecConcurrent                                                          *)

CallReturned(c) == comparisons[c].result.state = "fulfilled"
CallSettled(c) == comparisons[c].result.state # "pending"

\* C21: compareSnapshots is a function of the two file contents. Both reads
\* of a call are under way from its start, a call that returns a
\* SnapshotDiff returns the diff of the two files as they are, old side
\* first, whichever of its reads settled first, and two calls that
\* return, however their reads interleaved, return the same SnapshotDiff
C21_Deterministic ==
    \A c \in DOMAIN comparisons :
        /\ CallReturned(c) =>
              /\ comparisons[c].snapshots.old = parseSnapshot(files.old)
              /\ comparisons[c].snapshots.new = parseSnapshot(files.new)
              /\ comparisons[c].result.value.metrics.old =
                     comparisons[c].snapshots.old.value.metadata.health_metrics
              /\ comparisons[c].result.value.metrics.new =
                     comparisons[c].snapshots.new.value.metadata.health_metrics
        /\ \A d \in DOMAIN comparisons :
              CallReturned(c) /\ CallSettled(d) => comparisons[d].result = comparisons[c].result

\* two calls returned a diff with changes, one after its old read settled
\* first and one after its new read settled first
C21_Witness ==
    /\ DOMAIN comparisons # {}
    /\ \E c, d \in DOMAIN comparisons :
          /\ CallReturned(c) /\ CallReturned(d)
          /\ comparisons[c].order = <<"old", "new">>
          /\ comparisons[d].order = <<"new", "old">>
          /\ comparisons[c].result.value.metrics.changes # <<>>
          /\ comparisons[c].result.value.content.added # <<>>

----------------------------------------------------------------------------
(* Snapshot Generator: SnapshotGenerator of src/src/core/documentation.ts  *)

NotesTitle == <<"#", " ", "N", "o", "t", "e", "s">>
TasksTitle == <<"#", "#", " ", "T", "a", "s", "k", "s">>
UncheckedSpace == <<"-", " ", "[", " ", "]", " ", "w", "r", "i", "t", "e", " ", "t", "e", "s", "t", "s">>
UncheckedBare == <<"-", " ", "[", "]", " ", "s", "h", "i", "p", " ", "i", "t">>
CheckedLower == <<"-", " ", "[", "x", "]", " ", "a", "d", "d", " ", "p", "a", "r", "s", "e", "r">>
CheckedUpper == <<"-", " ", "[", "X", "]", " ", "f", "i", "x", " ", "l", "o", "g", "i", "n">>
CheckedBox == <<"[", "x", "]">>
\* the grave accent, which a TLA+ string cannot hold, and the code fence
GraveAccent == "grave"
Fence == <<GraveAccent, GraveAccent, GraveAccent>>
MdSuffix == <<".", "m", "d">>
LegacySnapshot == <<"s", "n", "a", "p", "s", "h", "o", "t", "_", "1", ".", "m", "d">>
YearName == <<"2", "0", "2", "4">>
IsoPrefix == <<"2", "0", "2", "4", "-", "0", "1", "-", "0">>
Midnight == <<"T", "0", "0", ":", "0", "0", ":", "0", "0", ".", "0", "0", "0", "Z">>
Noon == <<"T", "1", "2", ":", "0", "0", ":", "0", "0", ".", "0", "0", "0", "Z">>

\* (1000 * 60 * 60 * 24) milliseconds, in ticks of the clock
TicksPerDay == 2

\* new Date().toISOString() at tick t of January 2024
toISOString(t) ==
    IsoPrefix \o <<DigitChars[(t \div TicksPerDay) + 2]>>
              \o (IF t % TicksPerDay = 0 THEN Midnight ELSE Noon)

\* content.split(/\s+/).length: one piece more than there are maximal runs
\* of white space
words(s) ==
    1 + Cardinality({i \in DOMAIN s : IsSpace(s[i]) /\ (i = 1 \/ ~IsSpace(s[i - 1]))})

\* the string fs.readFile returns for a file of these lines
Content(lines) == join(lines, <<"\n">>)

\* content.match(/\[[\s\t]*\]/g)?.length || 0
RECURSIVE SkipSpaces(_, _)
SkipSpaces(s, i) ==
    IF i <= Len(s) /\ IsSpace(s[i]) THEN SkipSpaces(s, i + 1) ELSE i

\* a match starts at every '[' that white space only separates from a ']',
\* and no two matches overlap
EmptyBoxes(s) ==
    Cardinality({i \in DOMAIN s :
                    /\ s[i] = "["
                    /\ LET j == SkipSpaces(s, i + 1) IN j <= Len(s) /\ s[j] = "]"})

\* content.match(/\[x\]/gi)?.length || 0
CheckedBoxes(s) ==
    LET lower == toLowerCase(s)
    IN Cardinality({i \in DOMAIN s : OccursAt(lower, i, CheckedBox)})

\* content.match(/^(#{1,6})\s/gm): the lengths of the runs of '#' matched
\* at the starts of lines
RECURSIVE HashRun(_, _)
HashRun(s, i) ==
    IF i <= Len(s) /\ s[i] = "#" THEN 1 + HashRun(s, i + 1) ELSE 0

HeadingStarts(s) ==
    {i \in DOMAIN s :
        /\ i = 1 \/ s[i - 1] = "\n"
        /\ LET run == HashRun(s, i)
           IN run \in 1..6 /\ i + run <= Len(s) /\ IsSpace(s[i + run])}

\* Math.max(...(matches?.map(h => h.trim().length) || [0]))
sectionDepth(s) ==
    LET runs == {HashRun(s, i) : i \in HeadingStarts(s)}
    IN IF runs = {} THEN 0 ELSE CHOOSE k \in runs : \A r \in runs : r <= k

\* the matches of a code fence, anything, and the nearest next code fence
\* in content, counted
\* where the first code fence at or after position i starts, 0 for none
NextFence(s, i) ==
    LET at == {j \in i..Len(s) : OccursAt(s, j, Fence)}
    IN IF at = {} THEN 0 ELSE CHOOSE j \in at : \A k \in at : j <= k

RECURSIVE CodeBlocksFrom(_, _)
CodeBlocksFrom(s, i) ==
    LET open == NextFence(s, i)
        close == IF open = 0 THEN 0 ELSE NextFence(s, open + 3)
    IN IF close = 0 THEN 0 ELSE 1 + CodeBlocksFrom(s, close + 3)

\* calculateHealthMetrics, given the content read and the time stamp. The
\* two quotients are exact in tenths for the documents of the model, which
\* have 1, 2 or 4 empty boxes and at most 2 headings.
calculateHealthMetrics(s, stamp) ==
    LET word_count == words(s)
        sections == Cardinality(HeadingStarts(s))
        todos == EmptyBoxes(s)
        completedTodos == CheckedBoxes(s)
    IN [HealthMetrics(stamp, word_count, (word_count + 199) \div 200, todos, <<>>, <<>>,
                      100, sections, sectionDepth(s), CodeBlocksFrom(s, 1), word_count, 0, 0)
          EXCEPT !.completion_percentage =
                     Tenths(IF todos > 0 THEN (1000 * completedTodos) \div todos
                            ELSE 1000),
                 !.avg_section_length =
                     Tenths(IF sections > 0 THEN (10 * word_count) \div sections
                            ELSE 10 * word_count)]

\* f.endsWith(suffix)
endsWith(s, suffix) ==
    Len(s) >= Len(suffix) /\ OccursAt(s, Len(s) - Len(suffix) + 1, suffix)

\* fs.readdir(snapshotsDir): the names directly in the directory, which
\* are the files kept there and the year directory of the dated snapshots
readdir(dir) ==
    {f.name : f \in dir.flat} \cup (IF dir.dated = {} THEN {} ELSE {YearName})

\* getLastSnapshotDelta(snapshotsDir) called at tick t. The directory
\* exists, createSnapshot has made it, so that readdir does not throw.
getLastSnapshotDelta(dir, t) ==
    LET names == readdir(dir)
        named == {f \in names : endsWith(f, MdSuffix)}
        mtimes == {f.mtime : f \in {g \in dir.flat : g.name \in named}}
    IN IF names = {} THEN 0
       ELSE IF named = {} THEN 0
       ELSE LET latest == CHOOSE m \in mtimes : \A n \in mtimes : n <= m
            IN (t - latest) \div TicksPerDay

----------------------------------------------------------------------------
(* Inputs of the snapshot generator *)

\* numbers of empty boxes of a document
UncheckedCounts == {0, 1, 2, 4}

\* n lines taken in turn from two
Alternate(n, first, second) ==
    [i \in 1..n |-> IF i % 2 = 1 THEN first ELSE second]

Headings == {<<NotesTitle>>, <<NotesTitle, TasksTitle>>}

Documents ==
    {h \o Alternate(u, UncheckedSpace, UncheckedBare)
       \o Alternate(c, CheckedLower, CheckedUpper) :
        h \in Headings, u \in UncheckedCounts, c \in 0..MaxChecked}

\* the snapshots directory before the first snapshot: missing or empty, or
\* holding a snapshot of the time before the dated directories
Directories ==
    {[flat |-> {}, dated |-> {}],
     [flat |-> {[name |-> LegacySnapshot, mtime |-> 0]}, dated |-> {}]}

----------------------------------------------------------------------------
(* SpecGenerate: `mementor snapshot` run again and again on a document,    *)
(* while time passes                                                       *)

GenerateInit ==
    /\ pc = "snapshot"
    /\ doc \in Documents
    /\ now = 0
    /\ outputDir \in Directories
    /\ metadata = NoMetadata
    /\ ContentIdle
    /\ MetricsIdle
    /\ SnapshotsIdle
    /\ ReportIdle
    /\ ConcurrentIdle
    /\ CommandIdle
    /\ SessionIdle
    /\ WatcherIdle

\* SnapshotGenerator.createSnapshot(docPath, outputDir): the snapshot is
\* written to outputDir/YYYY/MM/DD/snapshot_HHMMSS.md, a path the tick
\* determines, and replaces a snapshot written in the same tick
GeneratorCreateSnapshot ==
    /\ LET stamp == toISOString(now)
           healthMetrics ==
               [calculateHealthMetrics(Content(doc), stamp)
                   EXCEPT !.last_snapshot_delta = Num(getLastSnapshotDelta(outputDir, now))]
           md == Metadata(Version100, stamp, stamp,
                          <<[name |-> MementorTs, version |-> Version100]>>,
                          healthMetrics, <<TagDocumentation, TagSnapshot>>)
       IN /\ metadata' = md
          /\ outputDir' =
                [outputDir EXCEPT !.dated =
                    {r \in @ : r.written # now}
                        \cup {[written  |-> now,
                               metadata |-> md,
                               lines    |-> createSnapshot(md, RenderedBody)]}]
    /\ UNCHANGED <<pc, doc, now, contentVars, metricsVars, snapshotVars, reportVars, concurrentVars, commandVars, sessionVars, watcherVars>>

\* twelve hours pass
Tick ==
    /\ now < MaxNow
    /\ now' = now + 1
    /\ UNCHANGED <<pc, doc, outputDir, contentVars, metricsVars, snapshotVars, generatorVars, reportVars, concurrentVars, commandVars, sessionVars, watcherVars>>

GenerateNext == GeneratorCreateSnapshot \/ Tick

SpecGenerate == GenerateInit /\ [][GenerateNext]_vars

----------------------------------------------------------------------------
(* Claims about the snapshot generator, checked under SpecGenerate *)

\* the lines of the document with a checked box and with an empty box
CheckedLines == {i \in DOMAIN doc : includes(toLowerCase(doc[i]), CheckedBox)}
UncheckedLines ==
    {i \in DOMAIN doc : includes(doc[i], <<"[", " ", "]">>) \/ includes(doc[i], <<"[", "]">>)}

\* C22: the completion_percentage of every snapshot created is
\* 100 * checked / (checked + unchecked) for the checked and unchecked
\* boxes of the document, 100 for a document without boxes, and so lies
\* between 0 and 100
C22_CompletionOfAllBoxes ==
    \A r \in outputDir.dated :
        LET checked == Cardinality(CheckedLines)
            unchecked == Cardinality(UncheckedLines)
            percentage == r.metadata.health_metrics.completion_percentage.val
        IN /\ checked + unchecked = 0 => percentage = 1000
           /\ checked + unchecked > 0 =>
                 percentage * (checked + unchecked) = 1000 * checked
           /\ percentage >= 0 /\ percentage <= 1000

\* the ticks at which the snapshots of a directory were written
Written(dir) == {f.mtime : f \in dir.flat} \cup {r.written : r \in dir.dated}

\* C23: a createSnapshot that runs D whole days after the most recent
\* snapshot of the directory was written records last_snapshot_delta = D,
\* and one that finds no snapshot records 0
C23_DeltaIsAgeOfPrevious ==
    [][outputDir' # outputDir =>
          LET delta == metadata'.health_metrics.last_snapshot_delta.val
              previous == Written(outputDir)
          IN IF previous = {} THEN delta = 0
             ELSE \E latest \in previous :
                     /\ \A w \in previous : w <= latest
                     /\ delta = 10 * ((now - latest) \div TicksPerDay)]_vars

----------------------------------------------------------------------------
(* Compare Command: findSnapshots and handleCompareCommand of              *)
(* src/src/commands/cleanup.ts                                             *)

SnapshotsRoot == <<"d", "o", "c", "s", "/", "c", "o", "n", "t", "e", "x", "t", "/", "s", "n", "a", "p", "s", "h", "o", "t", "s">>
SnapshotPrefix == <<"s", "n", "a", "p", "s", "h", "o", "t", "_">>
NotesMd == <<"n", "o", "t", "e", "s", ".", "m", "d">>
DateUnpadded == <<"2", "0", "2", "4", "-", "1", "-", "2">>
DatePadded == <<"2", "0", "2", "4", "-", "0", "1", "-", "1", "0">>
DateWithout == <<"2", "0", "2", "5", "-", "0", "2", "-", "0", "7">>

\* an argument left out: undefined, falsy as the empty string is
Absent == <<>>

\* the characters of the paths in the order of their UTF-16 code units
CodeUnits == <<"-", ".", "/">> \o DigitChars \o <<"_">> \o LowerCase

CodeUnit(c) == CHOOSE i \in DOMAIN CodeUnits : CodeUnits[i] = c

\* a < b as the default comparison of Array.prototype.sort() has it: by the
\* first code unit in which the strings differ, a proper prefix first
Before(a, b) ==
    \E k \in 1..(Len(b)) :
        /\ \A j \in 1..(k - 1) : j <= Len(a) /\ a[j] = b[j]
        /\ k > Len(a) \/ CodeUnit(a[k]) < CodeUnit(b[k])

\* array.sort() of an array of different strings
RECURSIVE sort(_)
sort(strings) ==
    IF strings = {} THEN <<>>
    ELSE LET first == CHOOSE a \in strings : \A b \in strings \ {a} : Before(a, b)
         IN <<first>> \o sort(strings \ {first})

\* n.padStart(2, '0')
padStart(n) ==
    IF Len(n) >= 2 THEN n ELSE IF Len(n) = 1 THEN <<"0">> \o n ELSE <<"0", "0">>

\* the directory ensureSnapshotDirectory makes for a day <<year, month, day>>
DayDir(day) ==
    <<Digits(day[1]), padStart(Digits(day[2])), padStart(Digits(day[3]))>>

\* snapshot_HHMMSS.md for the time <<hours, minutes, seconds>>
SnapshotName(time) ==
    SnapshotPrefix \o padStart(Digits(time[1])) \o padStart(Digits(time[2]))
                   \o padStart(Digits(time[3])) \o MdSuffix

\* the name of a file of the snapshots directory: a snapshot, or notes.md
FileName(entry) == IF entry.time = <<>> THEN NotesMd ELSE SnapshotName(entry.time)

\* path.join(snapshotsDir, year, month, day, file)
PathOf(entry) == join(<<SnapshotsRoot>> \o DayDir(entry.day) \o <<FileName(entry)>>, <<"/">>)

\* file.startsWith('snapshot_') && file.endsWith('.md')
IsSnapshotName(file) == startsWith(file, SnapshotPrefix) /\ endsWith(file, MdSuffix)

\* the array of paths findSnapshots returns
Listed(paths) == [list |-> paths]

\* findSnapshots(snapshotsDir, date): the sorted paths, or the error of
\* fs.readdir thrown when no date is given and the directory is missing
findSnapshots(dir, date) ==
    IF date # <<>>
    THEN LET parts == split(date, <<"-">>)
             targetDir == <<padStart(parts[1]), padStart(parts[2]), padStart(parts[3])>>
             listed == {e \in dir.entries : DayDir(e.day) = targetDir}
         IN Listed(sort({PathOf(e) : e \in {f \in listed : IsSnapshotName(FileName(f))}}))
    ELSE IF ~dir.exists THEN Thrown(IOError)
    ELSE Listed(sort({PathOf(e) : e \in {f \in dir.entries : IsSnapshotName(FileName(f))}}))

\* a call of handleCompareCommand with its arguments, before it has run
Called(date, oldSnapshot, newSnapshot) ==
    [date |-> date, oldSnapshot |-> oldSnapshot, newSnapshot |-> newSnapshot,
     state |-> "called", found |-> Listed(<<>>), compared |-> <<>>]

\* fs.access(path) fulfils
Accessible(dir, path) == \E e \in dir.entries : PathOf(e) = path

\* handleCompareCommand taking the first two snapshots of the list
handleCompareCommandFirstTwo(dir, call) ==
    IF call.oldSnapshot # <<>> /\ call.newSnapshot # <<>>
    THEN LET oldPath == join(<<SnapshotsRoot, call.oldSnapshot>>, <<"/">>)
             newPath == join(<<SnapshotsRoot, call.newSnapshot>>, <<"/">>)
         IN IF Accessible(dir, oldPath) /\ Accessible(dir, newPath)
            THEN [call EXCEPT !.state = "comparing", !.compared = <<oldPath, newPath>>]
            ELSE [call EXCEPT !.state = "threw"]
    ELSE LET found == findSnapshots(dir, call.date)
         IN IF Threw(found) THEN [call EXCEPT !.state = "threw", !.found = found]
            ELSE IF Len(found.list) < 2
                 THEN [call EXCEPT !.state = "returned", !.found = found]
                 ELSE [call EXCEPT !.state = "comparing", !.found = found,
                                   !.compared = <<found.list[1], found.list[2]>>]

\* handleCompareCommand up to its call of compareSnapshots: the call after
\* it returned early, threw, or chose the two paths and found them
\* accessible. The snapshots found are in the directory, so that fs.access
\* fulfils for them.
handleCompareCommand(dir, call) ==
    IF call.oldSnapshot # <<>> /\ call.newSnapshot # <<>>
    THEN LET oldPath == join(<<SnapshotsRoot, call.oldSnapshot>>, <<"/">>)
             newPath == join(<<SnapshotsRoot, call.newSnapshot>>, <<"/">>)
         IN IF Accessible(dir, oldPath) /\ Accessible(dir, newPath)
            THEN [call EXCEPT !.state = "comparing", !.compared = <<oldPath, newPath>>]
            ELSE [call EXCEPT !.state = "threw"]
    ELSE LET found == findSnapshots(dir, call.date)
         IN IF Threw(found) THEN [call EXCEPT !.state = "threw", !.found = found]
            ELSE IF Len(found.list) < 2
                 THEN [call EXCEPT !.state = "returned", !.found = found]
                 ELSE [call EXCEPT !.state = "comparing", !.found = found,
                                   !.compared = <<found.list[Len(found.list) - 1],
                                                  found.list[Len(found.list)]>>]

----------------------------------------------------------------------------
(* Inputs of the compare command *)

Days == {<<2023, 12, 31>>, <<2024, 1, 2>>, <<2024, 1, 10>>}
Times == {<<9, 30, 0>>, <<10, 5, 0>>}

\* the files a snapshots directory may hold: snapshots, and a file of notes
Entries ==
    {[day |-> d, time |-> t] : d \in Days, t \in Times}
        \cup {[day |-> <<2024, 1, 2>>, time |-> <<>>]}

\* the snapshots directory: missing, or holding some files
Stores ==
    {[exists |-> FALSE, entries |-> {}]}
        \cup {[exists |-> TRUE, entries |-> held] :
                 held \in {h \in SUBSET Entries : Cardinality(h) <= MaxStored}}

\* the names given with --old and --new, relative to the snapshots directory
RelativeOld == join(DayDir(<<2023, 12, 31>>) \o <<SnapshotName(<<9, 30, 0>>)>>, <<"/">>)
RelativeNew == join(DayDir(<<2024, 1, 2>>) \o <<SnapshotName(<<10, 5, 0>>)>>, <<"/">>)

----------------------------------------------------------------------------
(* SpecCompare: `mementor compare` run on a snapshots directory *)

CompareInit ==
    /\ pc = "compare"
    /\ snapshotsDir \in Stores
    /\ \E date \in {Absent, DateUnpadded, DatePadded, DateWithout},
          oldSnapshot \in {Absent, RelativeOld},
          newSnapshot \in {Absent, RelativeNew} :
          command = Called(date, oldSnapshot, newSnapshot)
    /\ ContentIdle
    /\ MetricsIdle
    /\ SnapshotsIdle
    /\ GeneratorIdle
    /\ ReportIdle
    /\ ConcurrentIdle
    /\ DocumentIdle
    /\ SessionIdle
    /\ WatcherIdle

HandleCompareCommand ==
    /\ command.state = "called"
    /\ command' = handleCompareCommand(snapshotsDir, command)
    /\ UNCHANGED <<pc, snapshotsDir, contentVars, metricsVars, snapshotVars, generatorVars, reportVars, concurrentVars, documentVars, sessionVars, watcherVars>>

\* compareSnapshots settles: the handler prints the report and returns, or
\* rethrows the error
ComparisonSettles ==
    /\ command.state = "comparing"
    /\ \E outcome \in {"returned", "threw"} : command' = [command EXCEPT !.state = outcome]
    /\ UNCHANGED <<pc, snapshotsDir, contentVars, metricsVars, snapshotVars, generatorVars, reportVars, concurrentVars, documentVars, sessionVars, watcherVars>>

CompareNext == HandleCompareCommand \/ ComparisonSettles

SpecCompare == CompareInit /\ [][CompareNext]_vars

----------------------------------------------------------------------------
(* Claims about the compare command, checked under SpecCompare *)

\* the call has run, and was not given both names
FoundByCommand ==
    /\ command.state # "called"
    /\ ~(command.oldSnapshot # <<>> /\ command.newSnapshot # <<>>)
    /\ ~Threw(command.found)

\* the snapshots the command looks through: those of the day given, or all
Looked ==
    {e \in snapshotsDir.entries :
        /\ e.time # <<>>
        /\ command.date # <<>> =>
              command.date \in {DateUnpadded, DatePadded, DateWithout}
              /\ (command.date = DateUnpadded => e.day = <<2024, 1, 2>>)
              /\ (command.date = DatePadded => e.day = <<2024, 1, 10>>)
              /\ command.date # DateWithout}

\* entry e was written before entry f
Earlier(e, f) ==
    LET a == e.day \o e.time
        b == f.day \o f.time
    IN \E k \in 1..6 : (\A j \in 1..(k - 1) : a[j] = b[j]) /\ a[k] < b[k]

----------------------------------------------------------------------------
(* AI Context Manager: AIContextManager of src/unnamed/part_003. A call is *)
(* modelled by the steps between its awaits: a step is the completion of   *)
(* the operation awaited, with its effect on the files, followed by the    *)
(* code up to the next await. The steps of different calls interleave.     *)

\* this.currentSession = null
NoSession == [null |-> TRUE]

IsNull(session) == "null" \in DOMAIN session

\* initializeSession(): the session of a new uuid, with no task
initializeSession == [sessionId |-> "new", taskProgress |-> <<>>]

\* a session ended and archived by an earlier run
PreviousSession == [sessionId |-> "previous", taskProgress |-> <<>>]

\* the file session_<id>.json holding the JSON text of a session
SessionFile(id, session) == [name |-> id, session |-> session]

\* the manager after its constructor: the new session is current, the
\* promise of initGit().then(() => this.tryRestoreSession()) is pending
Constructed ==
    [currentSession |-> initializeSession,
     ending         |-> "idle",
     sessionPath    |-> "",
     restoring      |-> "initGit",
     sessionId      |-> "",
     restored       |-> FALSE,
     task           |-> <<>>,
     updates        |-> 0]

AISessionInit ==
    /\ pc = "session"
    /\ manager = Constructed
    /\ sessionStore \in
          {[current |-> "", sessions |-> {}, context |-> ""],
           [current |-> "", sessions |-> {SessionFile("previous", PreviousSession)},
            context |-> ""],
           [current |-> "previous", sessions |-> {SessionFile("previous", PreviousSession)},
            context |-> "previous"]}
    /\ ContentIdle
    /\ MetricsIdle
    /\ SnapshotsIdle
    /\ GeneratorIdle
    /\ ReportIdle
    /\ ConcurrentIdle
    /\ DocumentIdle
    /\ CommandIdle
    /\ WatcherIdle

SessionUnchanged ==
    UNCHANGED <<pc, contentVars, metricsVars, snapshotVars, generatorVars, reportVars, concurrentVars, documentVars, commandVars, watcherVars>>

\* endSession() is called: the test of currentSession, and archiveSession
\* up to await fs.mkdir
EndSession ==
    /\ manager.ending = "idle"
    /\ manager' =
          IF IsNull(manager.currentSession)
          THEN [manager EXCEPT !.ending = "threw"]
          ELSE [manager EXCEPT !.ending = "mkdir",
                               !.sessionPath = manager.currentSession.sessionId]
    /\ UNCHANGED sessionStore
    /\ SessionUnchanged

\* fs.mkdir of archiveSession is done: await fs.writeFile(sessionPath, ...)
\* of the session that is current now
EndSessionArchives ==
    /\ manager.ending = "mkdir"
    /\ manager' = [manager EXCEPT !.ending = "writeFile"]
    /\ sessionStore' =
          [sessionStore EXCEPT !.sessions =
              {f \in @ : f.name # manager.sessionPath}
                  \cup {SessionFile(manager.sessionPath, manager.currentSession)}]
    /\ SessionUnchanged

\* the session is archived: this.currentSession = null, and
\* saveCurrentSessionRef up to await fs.unlink
EndSessionClears ==
    /\ manager.ending = "writeFile"
    /\ manager' = [manager EXCEPT !.currentSession = NoSession, !.ending = "unlink"]
    /\ UNCHANGED sessionStore
    /\ SessionUnchanged

\* .current-session is removed: await fs.writeFile(contextPath, '')
EndSessionUnlinks ==
    /\ manager.ending = "unlink"
    /\ manager' = [manager EXCEPT !.ending = "clearContext"]
    /\ sessionStore' = [sessionStore EXCEPT !.current = ""]
    /\ SessionUnchanged

\* active_context.md is emptied: the promise of endSession resolves
EndSessionResolves ==
    /\ manager.ending = "clearContext"
    /\ manager' = [manager EXCEPT !.ending = "resolved"]
    /\ sessionStore' = [sessionStore EXCEPT !.context = ""]
    /\ SessionUnchanged

\* initGit is done: tryRestoreSession up to await fs.access(this.sessionFile)
TryRestoreSession ==
    /\ manager.restoring = "initGit"
    /\ manager' = [manager EXCEPT !.restoring = "access"]
    /\ UNCHANGED sessionStore
    /\ SessionUnchanged

\* fs.access settles: with the file there, await fs.readFile(this.sessionFile)
RestoreAccesses ==
    /\ manager.restoring = "access"
    /\ manager' = [manager EXCEPT !.restoring =
                      IF sessionStore.current # "" THEN "readFile" ELSE "done"]
    /\ UNCHANGED sessionStore
    /\ SessionUnchanged

\* fs.readFile settles: the id is read and restoreSession(sessionId) runs
\* up to the await in findSessionFile, or the file is gone and the catch of
\* tryRestoreSession ends the attempt
RestoreReadsId ==
    /\ manager.restoring = "readFile"
    /\ manager' =
          IF sessionStore.current # ""
          THEN [manager EXCEPT !.restoring = "findSessionFile",
                               !.sessionId = sessionStore.current]
          ELSE [manager EXCEPT !.restoring = "done"]
    /\ UNCHANGED sessionStore
    /\ SessionUnchanged

\* findSessionFile settles: await fs.readFile(sessionFile), or the throw of
\* `Session ${sessionId} not found`, caught by tryRestoreSession
RestoreFinds ==
    /\ manager.restoring = "findSessionFile"
    /\ manager' = [manager EXCEPT !.restoring =
                      IF \E f \in sessionStore.sessions : f.name = manager.sessionId
                      THEN "readSession" ELSE "done"]
    /\ UNCHANGED sessionStore
    /\ SessionUnchanged

\* the session file is read: this.currentSession = session, and
\* updateActiveContext up to the await in formatContextMarkdown
RestoreAssigns ==
    /\ manager.restoring = "readSession"
    /\ \E f \in sessionStore.sessions :
          /\ f.name = manager.sessionId
          /\ manager' = [manager EXCEPT !.currentSession = f.session,
                                        !.restoring = "formatContext",
                                        !.restored = TRUE]
    /\ UNCHANGED sessionStore
    /\ SessionUnchanged

\* the git context is gathered: the text of the current session is
\* formatted for await fs.writeFile(contextPath, content), or
\* this.currentSession.projectState throws for a session set to null since
RestoreFormats ==
    /\ manager.restoring = "formatContext"
    /\ manager' = [manager EXCEPT !.restoring =
                      IF IsNull(manager.currentSession) THEN "done" ELSE "writeContext",
                                  !.sessionId =
                      IF IsNull(manager.currentSession) THEN @
                      ELSE manager.currentSession.sessionId]
    /\ UNCHANGED sessionStore
    /\ SessionUnchanged

\* active_context.md is written: saveCurrentSessionRef up to its first await
RestoreWritesContext ==
    /\ manager.restoring = "writeContext"
    /\ manager' = [manager EXCEPT !.restoring =
                      IF IsNull(manager.currentSession) THEN "unlink" ELSE "mkdir"]
    /\ sessionStore' = [sessionStore EXCEPT !.context = manager.sessionId]
    /\ SessionUnchanged

\* fs.unlink of saveCurrentSessionRef settles: restoreSession resolves
RestoreUnlinks ==
    /\ manager.restoring = "unlink"
    /\ manager' = [manager EXCEPT !.restoring = "done"]
    /\ sessionStore' = [sessionStore EXCEPT !.current = ""]
    /\ SessionUnchanged

\* fs.mkdir of saveCurrentSessionRef is done: await fs.writeFile of
\* this.currentSession.sessionId, which throws for a session set to null since
RestoreSavesRef ==
    /\ manager.restoring = "mkdir"
    /\ manager' = [manager EXCEPT !.restoring =
                      IF IsNull(manager.currentSession) THEN "done" ELSE "writeFile",
                                  !.sessionId =
                      IF IsNull(manager.currentSession) THEN @
                      ELSE manager.currentSession.sessionId]
    /\ UNCHANGED sessionStore
    /\ SessionUnchanged

\* .current-session is written: restoreSession resolves
RestoreResolves ==
    /\ manager.restoring = "writeFile"
    /\ manager' = [manager EXCEPT !.restoring = "done"]
    /\ sessionStore' = [sessionStore EXCEPT !.current = manager.sessionId]
    /\ SessionUnchanged

AISessionNext ==
    \/ EndSession
    \/ EndSessionArchives
    \/ EndSessionClears
    \/ EndSessionUnlinks
    \/ EndSessionResolves
    \/ TryRestoreSession
    \/ RestoreAccesses
    \/ RestoreReadsId
    \/ RestoreFinds
    \/ RestoreAssigns
    \/ RestoreFormats
    \/ RestoreWritesContext
    \/ RestoreUnlinks
    \/ RestoreSavesRef
    \/ RestoreResolves

SpecAISession == AISessionInit /\ [][AISessionNext]_vars

----------------------------------------------------------------------------
(* Claims about ending a session, checked under SpecAISession. No call of  *)
(* restoreSession is made in it but the one of tryRestoreSession.          *)

\* C28: once endSession() has resolved getCurrentSession() returns null,
\* and goes on to, as long as restoreSession is not called from outside,
\* however the steps of the tryRestoreSession the constructor started
\* fall between those of endSession
C28_EndedStaysNull ==
    (manager # <<>> /\ manager.ending = "resolved") => IsNull(manager.currentSession)

----------------------------------------------------------------------------
(* SpecTasks: updateTaskProgress called again and again on the session of  *)
(* a new manager, whose tryRestoreSession found nothing to restore         *)

Descriptions == {"write tests", "fix login", "update docs"}
Statuses == {"completed", "in-progress", "blocked"}

\* the TaskProgress values passed to updateTaskProgress
Tasks == {[description |-> d, status |-> st] : d \in Descriptions, st \in Statuses}

\* a updateTaskProgress that pushes every task
updateTaskProgressPush(taskProgress, task) == Append(taskProgress, task)

\* the taskProgress array after updateTaskProgress(task)
updateTaskProgress(taskProgress, task) ==
    LET existingTaskIndex ==
            FirstIndex({i \in DOMAIN taskProgress :
                           taskProgress[i].description = task.description})
    IN IF existingTaskIndex > 0
       THEN [taskProgress EXCEPT ![existingTaskIndex] = task]
       ELSE Append(taskProgress, task)

TasksInit ==
    /\ pc = "session"
    /\ manager = [Constructed EXCEPT !.restoring = "done"]
    /\ sessionStore = [current |-> "", sessions |-> {}, context |-> ""]
    /\ ContentIdle
    /\ MetricsIdle
    /\ SnapshotsIdle
    /\ GeneratorIdle
    /\ ReportIdle
    /\ ConcurrentIdle
    /\ DocumentIdle
    /\ CommandIdle
    /\ WatcherIdle

\* updateTaskProgress(task), with the active_context.md that
\* updateActiveContext writes for the session
UpdateTaskProgress ==
    /\ manager.updates < MaxUpdates
    /\ ~IsNull(manager.currentSession)
    /\ \E task \in Tasks :
          manager' = [manager EXCEPT
                         !.currentSession.taskProgress = updateTaskProgress(@, task),
                         !.task = task,
                         !.updates = @ + 1]
    /\ sessionStore' = [sessionStore EXCEPT !.context = manager.currentSession.sessionId]
    /\ SessionUnchanged

TasksNext == UpdateTaskProgress

SpecTasks == TasksInit /\ [][TasksNext]_vars

----------------------------------------------------------------------------
(* Claims about the task list, checked under SpecTasks *)

\* C29: from a new session on, after every call of updateTaskProgress the
\* list holds no two tasks of one description: a task whose description is
\* in the list takes the place of the entry of that description, the length
\* and the other entries staying as they are, and a task of a new
\* description is appended as the last entry
C29_OnePerDescription ==
    [][manager' # manager =>
          LET before == manager.currentSession.taskProgress
              after == manager'.currentSession.taskProgress
              task == manager'.task
              held == {i \in DOMAIN before : before[i].description = task.description}
          IN /\ \A i, j \in DOMAIN after :
                   after[i].description = after[j].description => i = j
             /\ held # {} =>
                   /\ Len(after) = Len(before)
                   /\ \A i \in DOMAIN before :
                         after[i] = IF i \in held THEN task ELSE before[i]
             /\ held = {} => after = Append(before, task)]_vars

\* a list of two tasks or more after more calls than it has entries, the
\* first entry having been replaced by the last call
C29_Witness ==
    /\ manager # <<>>
    /\ manager.task # <<>>
    /\ Len(manager.currentSession.taskProgress) >= 2
    /\ manager.updates > Len(manager.currentSession.taskProgress)
    /\ manager.currentSession.taskProgress[1] = manager.task

----------------------------------------------------------------------------
(* Project Watcher: ProjectWatcher of src/src/core/watcher.ts. The watcher *)
(* calls the listener of an event and does not wait for the promise it     *)
(* returns, so that the handlers of several events are under way at once.  *)

\* setupWatchers(): the events with a listener
Listeners == {"change", "add", "unlink", "error"}

\* the handler of an event up to await generateSnapshot(this.config);
\* errors counts the console.error calls made before it started
Handling(event, errors) ==
    [event |-> event, state |-> "generateSnapshot", error |-> "none", after |-> errors]

\* a handler whose try has no catch: the error rejects its promise
handleFileChangeNoCatch(handler, threw) ==
    IF threw THEN [handler EXCEPT !.state = "rejected", !.error = handler.state]
    ELSE IF handler.state = "generateSnapshot"
         THEN [handler EXCEPT !.state = "updateDocumentation"]
         ELSE [handler EXCEPT !.state = "resolved"]

\* handleFileChange resuming after the operation it awaits has settled:
\* generateSnapshot is followed by updateDocumentation, which is followed
\* by the end of the handler, and an error thrown by either is caught and
\* logged, after which the handler ends. handleFileAdd awaits this promise
\* and resolves with it.
handleFileChange(handler, threw) ==
    IF threw THEN [handler EXCEPT !.state = "resolved", !.error = handler.state]
    ELSE IF handler.state = "generateSnapshot"
         THEN [handler EXCEPT !.state = "updateDocumentation"]
         ELSE [handler EXCEPT !.state = "resolved"]

\* handleFileDelete resuming after the operation it awaits has settled
handleFileDelete(handler, threw) ==
    IF threw THEN [handler EXCEPT !.state = "resolved", !.error = handler.state]
    ELSE IF handler.state = "generateSnapshot"
         THEN [handler EXCEPT !.state = "updateDocumentation"]
         ELSE [handler EXCEPT !.state = "resolved"]

----------------------------------------------------------------------------
(* SpecWatcher: the watcher emits events; generateSnapshot and             *)
(* updateDocumentation return or throw                                     *)

WatcherInit ==
    /\ pc = "watch"
    /\ watcher = [listeners |-> Listeners, handlers |-> <<>>, errors |-> 0]
    /\ ContentIdle
    /\ MetricsIdle
    /\ SnapshotsIdle
    /\ GeneratorIdle
    /\ ReportIdle
    /\ ConcurrentIdle
    /\ DocumentIdle
    /\ CommandIdle
    /\ SessionIdle

WatcherUnchanged ==
    UNCHANGED <<pc, contentVars, metricsVars, snapshotVars, generatorVars, reportVars, concurrentVars, documentVars, commandVars, sessionVars>>

\* the watcher emits 'change', 'add' or 'unlink' for a file
Emit ==
    /\ Len(watcher.handlers) < MaxEvents
    /\ \E event \in {"change", "add", "unlink"} :
          /\ event \in watcher.listeners
          /\ watcher' = [watcher EXCEPT
                            !.handlers = Append(@, Handling(event, watcher.errors))]
    /\ WatcherUnchanged

\* the operation a handler awaits settles, and the handler resumes
Settles(h, threw) ==
    /\ watcher.handlers[h].state \in {"generateSnapshot", "updateDocumentation"}
    /\ watcher' = [watcher EXCEPT
                      !.handlers[h] = IF @.event = "unlink"
                                      THEN handleFileDelete(@, threw)
                                      ELSE handleFileChange(@, threw),
                      !.errors = IF threw THEN @ + 1 ELSE @]
    /\ WatcherUnchanged

Returns == \E h \in DOMAIN watcher.handlers : Settles(h, FALSE)
Throws == \E h \in DOMAIN watcher.handlers : Settles(h, TRUE)

WatcherNext == Emit \/ Returns \/ Throws

SpecWatcher == WatcherInit /\ [][WatcherNext]_vars

----------------------------------------------------------------------------
(* Claims about the watcher, checked under SpecWatcher *)

====
